---- MODULE Spec2Model ----
(***************************************************************************)
(* Model of the part search / attribute validation / part upsert core of   *)
(* the M&M MRP prototype (src/src/services/parts.ts and its HTTP callers). *)
(*                                                                         *)
(* Strings are sequences of one-character strings, so that trimming, case  *)
(* folding, parsing and LIKE matching are computed and not assumed.        *)
(* A nullable value is a record [some, v].                                 *)
(***************************************************************************)
EXTENDS Integers, Sequences, FiniteSets, TLC

(***************************************************************************)
(* Nullable values                                                         *)
(***************************************************************************)
NullStr == [some |-> FALSE, v |-> <<>>]

SomeStr(s) == [some |-> TRUE, v |-> s]

NullNum == [some |-> FALSE, v |-> 0]

SomeNum(n) == [some |-> TRUE, v |-> n]

(***************************************************************************)
(* Characters and the JavaScript string primitives the services use        *)
(***************************************************************************)
UpperChars == <<"A","B","C","D","E","F","G","H","I","J","K","L","M",
                "N","O","P","Q","R","S","T","U","V","W","X","Y","Z">>

LowerChars == <<"a","b","c","d","e","f","g","h","i","j","k","l","m",
                "n","o","p","q","r","s","t","u","v","w","x","y","z">>

DigitChars == <<"0","1","2","3","4","5","6","7","8","9">>

Range(f) == {f[i] : i \in DOMAIN f}

IsDigit(c) == c \in Range(DigitChars)

DigitVal(c) == (CHOOSE i \in DOMAIN DigitChars : DigitChars[i] = c) - 1

IsSpace(c) == c = " "

\* [A-Za-z0-9_], the regex class \w
IsWordChar(c) == c \in Range(UpperChars) \cup Range(LowerChars) \cup Range(DigitChars) \cup {"_"}

LowerChar(c) ==
  IF c \in Range(UpperChars)
    THEN LowerChars[CHOOSE i \in DOMAIN UpperChars : UpperChars[i] = c]
    ELSE c

\* String.prototype.toLowerCase
toLowerCase(s) == [i \in 1..Len(s) |-> LowerChar(s[i])]

RECURSIVE TrimLeft(_)
TrimLeft(s) == IF s # <<>> /\ IsSpace(Head(s)) THEN TrimLeft(Tail(s)) ELSE s

RECURSIVE TrimRight(_)
TrimRight(s) ==
  IF s # <<>> /\ IsSpace(s[Len(s)]) THEN TrimRight(SubSeq(s, 1, Len(s) - 1)) ELSE s

\* String.prototype.trim
trim(s) == TrimRight(TrimLeft(s))

\* s.startsWith(p)
StartsWith(s, p) == Len(s) >= Len(p) /\ SubSeq(s, 1, Len(p)) = p

RECURSIVE NatToString(_)
NatToString(n) ==
  IF n < 10 THEN <<DigitChars[n + 1]>>
  ELSE NatToString(n \div 10) \o <<DigitChars[(n % 10) + 1]>>

\* Number.prototype.toString for an integer
IntToString(n) == IF n < 0 THEN <<"-">> \o NatToString(-n) ELSE NatToString(n)

RECURSIVE SeqMap(_, _)
SeqMap(Op(_), s) == IF s = <<>> THEN <<>> ELSE <<Op(Head(s))>> \o SeqMap(Op, Tail(s))

RECURSIVE SeqFilter(_, _)
SeqFilter(Test(_), s) ==
  IF s = <<>> THEN <<>>
  ELSE (IF Test(Head(s)) THEN <<Head(s)>> ELSE <<>>) \o SeqFilter(Test, Tail(s))

\* index of the first "'" of s at a position >= i, or 0
RECURSIVE NextQuote(_, _)
NextQuote(s, i) ==
  IF i > Len(s) THEN 0
  ELSE IF s[i] = "'" THEN i
  ELSE NextQuote(s, i + 1)

\* Array.from(s.matchAll(/'([^']+)'/g)).map(m => m[1]), scanning from position i
RECURSIVE QuotedFrom(_, _)
QuotedFrom(s, i) ==
  LET open == NextQuote(s, i)
      close == IF open = 0 THEN 0 ELSE NextQuote(s, open + 1)
  IN  IF open = 0 \/ close = 0 THEN <<>>
      ELSE IF close = open + 1 THEN QuotedFrom(s, open + 1)
      ELSE <<SubSeq(s, open + 1, close - 1)>> \o QuotedFrom(s, close + 1)

QuotedLiterals(s) == QuotedFrom(s, 1)

\* length of the run of digits of s that starts at position i
RECURSIVE DigitRun(_, _)
DigitRun(s, i) == IF i <= Len(s) /\ IsDigit(s[i]) THEN 1 + DigitRun(s, i + 1) ELSE 0

RECURSIVE DigitsValue(_)
DigitsValue(s) == IF s = <<>> THEN 0 ELSE DigitsValue(SubSeq(s, 1, Len(s) - 1)) * 10 + DigitVal(s[Len(s)])

\* Number.parseInt(s, 10): optional sign, then the leading run of digits; anything
\* after the run is ignored; no digit at all gives NaN (some = FALSE).
parseInt(s) ==
  LET t == TrimLeft(s)
      signed == t # <<>> /\ t[1] \in {"+", "-"}
      from == IF signed THEN 2 ELSE 1
      n == DigitRun(t, from)
      mag == DigitsValue(SubSeq(t, from, from + n - 1))
  IN  IF n = 0 THEN NullNum
      ELSE SomeNum(IF signed /\ t[1] = "-" THEN -mag ELSE mag)


\* Number.parseFloat(s) in tenths: optional sign, digits, optional "." and digits.
\* Numbers are carried in tenths; the values the model feeds in have at most
\* one fractional digit and no exponent.
parseFloat(s) ==
  LET t == TrimLeft(s)
      signed == t # <<>> /\ t[1] \in {"+", "-"}
      from == IF signed THEN 2 ELSE 1
      n == DigitRun(t, from)
      dot == from + n
      hasDot == dot <= Len(t) /\ t[dot] = "."
      f == IF hasDot THEN DigitRun(t, dot + 1) ELSE 0
      mag == DigitsValue(SubSeq(t, from, from + n - 1)) * 10
               + (IF f > 0 THEN DigitVal(t[dot + 1]) ELSE 0)
  IN  IF n = 0 /\ f = 0 THEN NullNum
      ELSE SomeNum(IF signed /\ t[1] = "-" THEN -mag ELSE mag)

\* Number.prototype.toString of a number given in tenths
NumToString(t) ==
  LET mag == IF t < 0 THEN -t ELSE t
      body == NatToString(mag \div 10)
                \o (IF mag % 10 = 0 THEN <<>> ELSE <<".", DigitChars[(mag % 10) + 1]>>)
  IN  IF t < 0 THEN <<"-">> \o body ELSE body

RECURSIVE Join(_, _)
Join(parts, sep) ==
  IF parts = <<>> THEN <<>>
  ELSE IF Len(parts) = 1 THEN parts[1]
  ELSE parts[1] \o sep \o Join(Tail(parts), sep)

(***************************************************************************)
(* Attribute rule engine (parts.ts)                                        *)
(***************************************************************************)
\* toSafeString: a string is trimmed, anything else (null = absent) is ''
toSafeString(value) == IF value.some THEN trim(value.v) ELSE <<>>

\* normalizeString of a nullable string column
normalizeString(value) == IF value.some THEN value.v ELSE <<>>

\* the replace(/_\d+$/, '') of normalizeAttributeCode
RECURSIVE StripNumericSuffix(_, _)
StripNumericSuffix(s, i) ==
  IF i > Len(s) THEN s
  ELSE IF s[i] = "_" /\ i < Len(s) /\ DigitRun(s, i + 1) = Len(s) - i THEN SubSeq(s, 1, i - 1)
  ELSE StripNumericSuffix(s, i + 1)

normalizeAttributeCode(code) == StripNumericSuffix(toLowerCase(code), 1)

\* the subtype value compared as it is given
normalizeSubtypeRaw(subtypeValue) == subtypeValue

\* subtypeValue.trim().toLowerCase()
normalizeSubtype(subtypeValue) == toLowerCase(trim(subtypeValue))

\* a conditional rule that ignores whether a subtype is recorded
conditionalAlways(matches, normalizedSubtype) ==
  [required |-> \E i \in DOMAIN matches : matches[i] = normalizedSubtype,
   visible |-> \E i \in DOMAIN matches : matches[i] = normalizedSubtype]

\* the last two returns of evaluateRequirement: the rule is neither empty, yes nor no
conditionalRequirement(matches, normalizedSubtype) ==
  IF matches # <<>> /\ normalizedSubtype # <<>>
    THEN [required |-> \E i \in DOMAIN matches : matches[i] = normalizedSubtype,
          visible |-> \E i \in DOMAIN matches : matches[i] = normalizedSubtype]
    ELSE [required |-> FALSE, visible |-> TRUE]

evaluateNormalized(normalizedRule, subtypeValue) ==
  IF normalizedRule = <<>> THEN [required |-> FALSE, visible |-> TRUE]
  ELSE IF normalizedRule = <<"y","e","s">> THEN [required |-> TRUE, visible |-> TRUE]
  ELSE IF normalizedRule = <<"n","o">> THEN [required |-> FALSE, visible |-> TRUE]
  ELSE conditionalRequirement(
         SeqMap(LAMBDA m : toLowerCase(trim(m)), QuotedLiterals(normalizedRule)),
         normalizeSubtype(subtypeValue))

evaluateRequirement(rule, subtypeValue) ==
  evaluateNormalized(IF rule.some THEN toLowerCase(trim(rule.v)) ELSE <<>>, subtypeValue)

\* a match that marks the field required and leaves it visible
matchRequires(matches, normalizedSubtype) ==
  [required |-> \E i \in DOMAIN matches : matches[i] = normalizedSubtype,
   visible |-> TRUE]

\* return { required: matchFound, visible: matchFound } of the page's script
matchState(matches, normalizedSubtype) ==
  [required |-> \E i \in DOMAIN matches : matches[i] = normalizedSubtype,
   visible |-> \E i \in DOMAIN matches : matches[i] = normalizedSubtype]

\* resolveRequirementState of the page's script, from the normalized rule on;
\* subtypeValue is a string or null: (subtypeValue ?? '').trim().toLowerCase()
resolveNormalized(normalizedRule, subtypeValue) ==
  LET matches == SeqMap(LAMBDA m : toLowerCase(trim(m)), QuotedLiterals(normalizedRule))
      normalizedSubtype == IF subtypeValue.some THEN toLowerCase(trim(subtypeValue.v))
                           ELSE <<>>
  IN  IF normalizedRule = <<>> THEN [required |-> FALSE, visible |-> TRUE]
      ELSE IF normalizedRule = <<"y","e","s">> THEN [required |-> TRUE, visible |-> TRUE]
      ELSE IF normalizedRule = <<"n","o">> THEN [required |-> FALSE, visible |-> TRUE]
      ELSE IF Len(matches) > 0 /\ normalizedSubtype # <<>>
        THEN matchState(matches, normalizedSubtype)
      ELSE [required |-> FALSE, visible |-> TRUE]

resolveRequirementState(requiredRule, subtypeValue) ==
  resolveNormalized(IF requiredRule.some THEN toLowerCase(trim(requiredRule.v)) ELSE <<>>,
                    subtypeValue)

\* index of the first attribute entry with the given id, or 0 (Array.prototype.find)
RECURSIVE FindAttribute(_, _, _)
FindAttribute(attributes, attributeId, i) ==
  IF i > Len(attributes) THEN 0
  ELSE IF attributes[i].attributeId = attributeId THEN i
  ELSE FindAttribute(attributes, attributeId, i + 1)

RECURSIVE findSubtypeFrom(_, _, _)
findSubtypeFrom(attributes, definitions, k) ==
  IF k > Len(definitions) THEN <<>>
  ELSE IF normalizeAttributeCode(definitions[k].code) # <<"s","u","b","t","y","p","e">>
    THEN findSubtypeFrom(attributes, definitions, k + 1)
  ELSE LET m == FindAttribute(attributes, definitions[k].attributeId, 1)
       IN  IF m # 0 THEN trim(attributes[m].value)
           ELSE findSubtypeFrom(attributes, definitions, k + 1)

\* a lookup that finds no subtype attribute
findSubtypeNone(attributes, definitions) == <<>>

findSubtypeValue(attributes, definitions) == findSubtypeFrom(attributes, definitions, 1)

\* /^int\b/i and /^double\b/i: the word, then a word boundary
StartsWithWord(s, w) ==
  /\ StartsWith(toLowerCase(s), w)
  /\ (Len(s) = Len(w) \/ ~IsWordChar(s[Len(w) + 1]))

\* first position >= i of s that holds no space
RECURSIVE SkipSpaces(_, _)
SkipSpaces(s, i) == IF i <= Len(s) /\ IsSpace(s[i]) THEN SkipSpaces(s, i + 1) ELSE i

parseAttributeConstraint(dataType) ==
  LET t == dataType.v
      open == SkipSpaces(t, 5)
      isEnum == /\ StartsWith(toLowerCase(t), <<"e","n","u","m">>)
                /\ open < Len(t) /\ t[open] = "(" /\ t[Len(t)] = ")"
      inner == SubSeq(t, open + 1, Len(t) - 1)
      options == SeqFilter(LAMBDA o : o # <<>>, SeqMap(trim, QuotedLiterals(inner)))
  IN  IF ~dataType.some \/ t = <<>> THEN [kind |-> "text", options |-> <<>>]
      ELSE IF isEnum THEN [kind |-> "enum", options |-> options]
      ELSE IF StartsWithWord(t, <<"i","n","t">>) THEN [kind |-> "int", options |-> <<>>]
      ELSE IF StartsWithWord(t, <<"d","o","u","b","l","e">>) THEN [kind |-> "double", options |-> <<>>]
      ELSE [kind |-> "text", options |-> <<>>]

Ok(value) == [ok |-> TRUE, value |-> value, error |-> <<>>]

Throw(message) == [ok |-> FALSE, value |-> <<>>, error |-> message]

Quoted(label) == <<"\"">> \o label \o <<"\"">>

MsgGreaterEqual(label, min) ==
  Quoted(label) \o <<" ","m","u","s","t"," ","b","e"," ","g","r","e","a","t","e","r"," ","t","h","a","n"," ","o","r"," ","e","q","u","a","l"," ","t","o"," ">> \o NumToString(min) \o <<".">>

MsgLessEqual(label, max) ==
  Quoted(label) \o <<" ","m","u","s","t"," ","b","e"," ","l","e","s","s"," ","t","h","a","n"," ","o","r"," ","e","q","u","a","l"," ","t","o"," ">> \o NumToString(max) \o <<".">>

MsgWholeNumber(label) ==
  Quoted(label) \o <<" ","m","u","s","t"," ","b","e"," ","a"," ","w","h","o","l","e"," ","n","u","m","b","e","r",".">>

MsgNumber(label) ==
  Quoted(label) \o <<" ","m","u","s","t"," ","b","e"," ","a"," ","n","u","m","b","e","r",".">>

MsgOneOf(label, options) ==
  Quoted(label) \o <<" ","m","u","s","t"," ","b","e"," ","o","n","e"," ","o","f",":"," ">> \o Join(options, <<",", " ">>)

\* the min/max tests shared by the int and double branches (parsed in tenths)
CheckRange(label, parsed, min, max, text) ==
  IF min.some /\ parsed < min.v THEN Throw(MsgGreaterEqual(label, min.v))
  ELSE IF max.some /\ parsed > max.v THEN Throw(MsgLessEqual(label, max.v))
  ELSE Ok(text)

validateAttributeValue(definition, rawValue) ==
  LET value == toSafeString(rawValue)
      constraint == parseAttributeConstraint(definition.dataType)
      label == IF definition.code # <<>> THEN definition.code
               ELSE <<"A","t","t","r","i","b","u","t","e"," ">> \o IntToString(definition.attributeId)
      asInt == parseInt(value)
      asFloat == parseFloat(value)
  IN  IF value = <<>> THEN Ok(<<>>)
      ELSE IF constraint.kind = "enum"
        THEN IF constraint.options # <<>>
                  /\ ~\E i \in DOMAIN constraint.options :
                        toLowerCase(constraint.options[i]) = toLowerCase(value)
               THEN Throw(MsgOneOf(label, constraint.options))
               ELSE Ok(value)
      ELSE IF constraint.kind = "int"
        THEN IF ~asInt.some THEN Throw(MsgWholeNumber(label))
             ELSE CheckRange(label, asInt.v * 10, definition.minValue, definition.maxValue,
                             IntToString(asInt.v))
      ELSE IF constraint.kind = "double"
        THEN IF ~asFloat.some THEN Throw(MsgNumber(label))
             ELSE CheckRange(label, asFloat.v, definition.minValue, definition.maxValue,
                             NumToString(asFloat.v))
      ELSE Ok(value)

(***************************************************************************)
(* Part-type metadata held by the store: the attribute table and the       *)
(* attribute_part_type_map rows.  No operation of the repository writes    *)
(* them.  min_value / max_value are in tenths.                             *)
(***************************************************************************)
attribute ==
  << [attribute_ID |-> 1, attribute_code |-> <<"S","u","b","t","y","p","e">>,
      data_type |-> SomeStr(<<"e","n","u","m","(","'","S","M","D","'",",","'","T","H","T","'",")">>),
      min_value |-> NullNum, max_value |-> NullNum, required_rule |-> NullStr],
     [attribute_ID |-> 2, attribute_code |-> <<"P","i","n","s">>,
      data_type |-> SomeStr(<<"i","n","t">>),
      min_value |-> SomeNum(10), max_value |-> SomeNum(640),
      required_rule |-> SomeStr(<<"r","e","q","u","i","r","e","d"," ","i","f"," ","s","u","b","t","y","p","e"," ","i","n"," ","'","S","M","D","'">>)],
     [attribute_ID |-> 3, attribute_code |-> <<"N","o","t","e">>,
      data_type |-> NullStr,
      min_value |-> NullNum, max_value |-> NullNum, required_rule |-> NullStr],
     [attribute_ID |-> 4, attribute_code |-> <<"T","o","l">>,
      data_type |-> SomeStr(<<"d","o","u","b","l","e">>),
      min_value |-> SomeNum(0), max_value |-> SomeNum(50),
      required_rule |-> SomeStr(<<"y","e","s">>)] >>

attribute_part_type_map ==
  << [part_type_ID |-> 1, attribute_ID |-> 1],
     [part_type_ID |-> 1, attribute_ID |-> 2],
     [part_type_ID |-> 1, attribute_ID |-> 3],
     [part_type_ID |-> 2, attribute_ID |-> 3],
     [part_type_ID |-> 2, attribute_ID |-> 4] >>

\* the attribute row with the given id (the `include: { attribute: true }` join)
AttributeRow(attributeId) ==
  LET hits == SeqFilter(LAMBDA a : a.attribute_ID = attributeId, attribute)
  IN  IF hits = <<>> THEN [some |-> FALSE, v |-> attribute[1]] ELSE [some |-> TRUE, v |-> hits[1]]

\* one mapping row turned into a PartAttributeDefinition
MappingDefinition(mapping) ==
  LET a == AttributeRow(mapping.attribute_ID).v
  IN  [attributeId |-> mapping.attribute_ID, code |-> a.attribute_code,
       dataType |-> a.data_type, minValue |-> a.min_value, maxValue |-> a.max_value,
       requiredRule |-> a.required_rule]

\* the definitions of a part type, in mapping order (a Map keeps insertion order)
resolveAttributeDefinitions(partTypeId) ==
  IF ~partTypeId.some THEN <<>>
  ELSE SeqMap(MappingDefinition,
              SeqFilter(LAMBDA m : m.part_type_ID = partTypeId.v /\ AttributeRow(m.attribute_ID).some,
                        attribute_part_type_map))

\* definitions.get(attributeId): index of the definition, or 0
RECURSIVE DefinitionIndex(_, _, _)
DefinitionIndex(definitions, attributeId, k) ==
  IF k > Len(definitions) THEN 0
  ELSE IF definitions[k].attributeId = attributeId THEN k
  ELSE DefinitionIndex(definitions, attributeId, k + 1)

\* normalizeAttributes: entries of undefined ids are dropped, the others are
\* validated in order; the first invalid value throws.
\* one entry of the loop of normalizeAttributes: k is the index of its definition
\* (0 when the id is not defined), checked its validated value, rest the
\* outcome of the entries after it
\* entries of undefined ids are kept
normalizeEntryKeep(attributeId, k, checked, rest) ==
  IF ~rest.ok THEN rest
  ELSE IF k = 0 THEN Ok(<<[attributeId |-> attributeId, value |-> <<>>]>> \o rest.value)
  ELSE IF ~checked.ok THEN Throw(checked.error)
  ELSE Ok(<<[attributeId |-> attributeId, value |-> checked.value]>> \o rest.value)

normalizeEntry(attributeId, k, checked, rest) ==
  IF k = 0 THEN rest
  ELSE IF ~checked.ok THEN Throw(checked.error)
  ELSE IF ~rest.ok THEN rest
  ELSE Ok(<<[attributeId |-> attributeId, value |-> checked.value]>> \o rest.value)

normalizeValidated(attributes, definitions, i, attributeId, k, rest) ==
  normalizeEntry(attributeId.v, k,
                 validateAttributeValue(definitions[k], SomeStr(attributes[i].value)), rest)

normalizeLookup(attributes, definitions, i, attributeId, rest) ==
  normalizeValidated(attributes, definitions, i, attributeId,
                     IF attributeId.some THEN DefinitionIndex(definitions, attributeId.v, 1)
                     ELSE 0,
                     rest)

RECURSIVE normalizeFrom(_, _, _)
normalizeFrom(attributes, definitions, i) ==
  IF i > Len(attributes) THEN Ok(<<>>)
  ELSE normalizeLookup(attributes, definitions, i,
                       parseInt(IntToString(attributes[i].attributeId)),
                       normalizeFrom(attributes, definitions, i + 1))

normalizeAttributes(attributes, definitions) ==
  IF ~attributes.some THEN Ok(<<>>) ELSE normalizeFrom(attributes.v, definitions, 1)

\* a check that finds nothing missing
missingNothing(attributes, definitions) == <<>>

\* the codes of the required definitions that have no non-empty submitted value
missingRequired(attributes, definitions) ==
  LET subtypeValue == findSubtypeValue(attributes, definitions)
      Missing(definition) ==
        LET m == FindAttribute(attributes, definition.attributeId, 1)
        IN  /\ evaluateRequirement(definition.requiredRule, subtypeValue).required
            /\ (m = 0 \/ trim(attributes[m].value) = <<>>)
  IN  SeqMap(LAMBDA d : d.code, SeqFilter(Missing, definitions))

assertRequiredAttributes(attributes, definitions) ==
  LET missing == missingRequired(attributes, definitions)
  IN  IF missing # <<>>
        THEN Throw(<<"M","i","s","s","i","n","g"," ","r","e","q","u","i","r","e","d"," ","a","t","t","r","i","b","u","t","e","s",":"," ">>
                     \o Join(missing, <<",", " ">>))
        ELSE Ok(<<>>)

(***************************************************************************)
(* The store: partmaster rows by part number, part_data rows                *)
(***************************************************************************)
P1 == <<"P","1">>

P2 == <<"P","2">>

PartNumbers == {P1, P2}

\* PartMaster_PKey is assigned by the store; one key per part number
PKeyOf(partNumber) == IF partNumber = P1 THEN 1 ELSE 2

NoRow ==
  [exists |-> FALSE, PartMaster_PKey |-> 0, DescText |-> NullStr, Revision |-> NullStr,
   StockUOM |-> NullStr, ISC |-> NullStr, part_type_ID |-> NullNum]

PrismaError == <<"P","r","i","s","m","a","C","l","i","e","n","t","E","r","r","o","r">>

VARIABLES
  partmaster,            \* part number -> partmaster row (exists = FALSE: no row)
  part_data,             \* sequence of [PartMaster_PKey, attribute_ID, part_data]
  rowLock,               \* part number -> the call whose open transaction wrote the row, or 0
  pc,                    \* call -> position in upsertPart
  payload,               \* call -> PartUpsertPayload
  allowCreate,           \* call -> BOOLEAN
  existingPart,          \* call -> what findUnique returned
  effectivePartTypeId,   \* call -> number
  normalizedAttributes,  \* call -> sequence of [attributeId, value]
  tx,                    \* call -> statements run so far in its open transaction
  result,                \* call -> [ok, error, detail]
  wrote,                 \* call -> the call has changed the store (history)
  committed,             \* part number -> what the last commit meant to write (history)
  repeatOf,              \* call -> store entry left by the same payload just before (history)
  overlap,               \* the calls now recorded in payload ran at the same time (history)
  inventorylots,         \* sequence of [PartNumber, Quantity]
  inventorytags,         \* sequence of [PartNumber, InventoryQuantity]
  bom,                   \* sequence of [Assembly, Component, ItemSequence]
  request,               \* query parameters of the request being answered
  response,              \* [status, data, by]: what the handler sent
  invoked,               \* [called, options]: the call of searchParts the handler made
  bomRows,               \* what getBillOfMaterials returned
  ruleCall,              \* [fn, ...]: a function of the rule engine and its arguments
  ruleResult,            \* [done, ...]: what that function returned or threw
  prismaSyncInProgress,  \* the module's flag of the Prisma sync endpoint
  syncEnv,               \* [variant, databaseUrl]: which handler serves, DATABASE_URL is set
  sync,                  \* POST request -> [pc, step, status, commands, sawInProgress, order]
  filters,               \* [partQuery, descriptionQuery, inStockOnly]: the search form
  debounceTimer,         \* the timeout of queueSearch is pending
  activeController,      \* the search whose AbortController is activeController, or 0
  searches,              \* performSearch call -> [pc, query, parts]
  triggered,             \* how many times performSearch has been called
  referenceCache,        \* [locations, locationsLoaded, locationsPromise, waiting]
  resultsBody,           \* [message, rows]: what the results table shows
  lastParts              \* the parts the pager pages through

upsertVars ==
  <<partmaster, part_data, rowLock, pc, payload, allowCreate, existingPart,
    effectivePartTypeId, normalizedAttributes, tx, result, wrote, committed, repeatOf,
    overlap>>

searchVars == <<inventorylots, inventorytags, bom, request, response, invoked, bomRows>>

ruleVars == <<ruleCall, ruleResult>>

syncVars == <<prismaSyncInProgress, syncEnv, sync>>

uiVars ==
  <<filters, debounceTimer, activeController, searches, triggered, referenceCache,
    resultsBody, lastParts>>

Db == [partmaster |-> partmaster, part_data |-> part_data]

\* rows of part_data that belong to a part key, in table order
RowsOf(rows, partKey) == SeqFilter(LAMBDA r : r.PartMaster_PKey = partKey, rows)

\* value || null
OrNull(s) == IF s = <<>> THEN NullStr ELSE SomeStr(s)

(***************************************************************************)
(* upsertPart: the part before the transaction                             *)
(***************************************************************************)
NotFoundPart == [found |-> FALSE, PartMaster_PKey |-> 0, part_type_ID |-> NullNum]

\* prisma.partmaster.findUnique({ where: { PartNumber }, select: ... })
findUnique(rows, partNumber) ==
  IF partNumber \in DOMAIN rows /\ rows[partNumber].exists
    THEN [found |-> TRUE, PartMaster_PKey |-> rows[partNumber].PartMaster_PKey,
          part_type_ID |-> rows[partNumber].part_type_ID]
    ELSE NotFoundPart

\* the stored part type first
resolveStoredPartTypeId(p, existing) ==
  IF existing.found /\ existing.part_type_ID.some THEN existing.part_type_ID
  ELSE p.partTypeId

\* payload.partTypeId when it is a finite number, else existingPart?.part_type_ID
resolveEffectivePartTypeId(p, existing) ==
  IF p.partTypeId.some THEN p.partTypeId
  ELSE IF existing.found THEN existing.part_type_ID
  ELSE NullNum

baseData(p, partTypeId) ==
  [DescText |-> OrNull(toSafeString(p.description)),
   Revision |-> OrNull(toSafeString(p.revision)),
   StockUOM |-> OrNull(toSafeString(p.stockUom)),
   ISC |-> OrNull(toSafeString(p.status)),
   part_type_ID |-> SomeNum(partTypeId)]

MsgPartNumberRequired ==
  <<"A"," ","p","a","r","t"," ","n","u","m","b","e","r"," ","i","s"," ","r","e","q","u","i","r","e","d",".">>

MsgTypeRequiredToCreate ==
  <<"A"," ","P","a","r","t"," ","T","y","p","e"," ","i","s"," ","r","e","q","u","i","r","e","d"," ","t","o"," ","c","r","e","a","t","e"," ","a"," ","p","a","r","t",".">>

MsgTypeRequiredToEdit ==
  <<"A"," ","P","a","r","t"," ","T","y","p","e"," ","m","u","s","t"," ","b","e"," ","s","e","l","e","c","t","e","d"," ","b","e","f","o","r","e"," ","e","d","i","t","i","n","g"," ","t","h","i","s"," ","p","a","r","t",".">>

MsgPartDoesNotExist ==
  <<"P","a","r","t"," ","d","o","e","s"," ","n","o","t"," ","e","x","i","s","t",".">>

\* no existence check
checkNothing(existing, mayCreate) == Ok(<<>>)

\* an existence check that lets every call through
checkAllowAlways(existing, mayCreate) == Ok(<<>>)

\* the existence check that closes the validation, just before the transaction
checkAllowCreate(existing, mayCreate) ==
  IF ~existing.found /\ ~mayCreate THEN Throw(MsgPartDoesNotExist) ELSE Ok(<<>>)

\* Everything upsertPart does between findUnique and $transaction.  The result
\* carries the effective part type and the normalized attributes.
PrepareFailed(message) ==
  [ok |-> FALSE, error |-> message, partTypeId |-> 0, attributes |-> <<>>]

upsertChecked(existing, effective, normalized, required, creatable) ==
  IF ~effective.some \/ effective.v = 0
    THEN PrepareFailed(IF ~existing.found THEN MsgTypeRequiredToCreate
                       ELSE MsgTypeRequiredToEdit)
  ELSE IF ~normalized.ok THEN PrepareFailed(normalized.error)
  ELSE IF ~required.ok THEN PrepareFailed(required.error)
  ELSE IF ~creatable.ok THEN PrepareFailed(creatable.error)
  ELSE [ok |-> TRUE, error |-> <<>>, partTypeId |-> effective.v,
        attributes |-> normalized.value]

upsertNormalized(existing, mayCreate, effective, attributeDefinitions, normalized) ==
  upsertChecked(existing, effective, normalized,
                IF attributeDefinitions # <<>>
                  THEN assertRequiredAttributes(normalized.value, attributeDefinitions)
                  ELSE Ok(<<>>),
                checkAllowCreate(existing, mayCreate))

upsertDefined(p, existing, mayCreate, effective, attributeDefinitions) ==
  upsertNormalized(existing, mayCreate, effective, attributeDefinitions,
                   normalizeAttributes(p.attributes, attributeDefinitions))

upsertTyped(p, existing, mayCreate, effective) ==
  upsertDefined(p, existing, mayCreate, effective, resolveAttributeDefinitions(effective))

upsertPrepare(p, existing, mayCreate) ==
  upsertTyped(p, existing, mayCreate, resolveEffectivePartTypeId(p, existing))

(***************************************************************************)
(* The statements of the transaction and their effect on the store          *)
(***************************************************************************)
Statement(op, partNumber, data, partKey, rows) ==
  [op |-> op, PartNumber |-> partNumber, data |-> data, key |-> partKey, rows |-> rows]

\* a deleteMany that removes nothing
deleteNone(rows, partKey) == rows

\* tx.part_data.deleteMany({ where: { PartMaster_PKey: partKey } })
deleteMany(rows, partKey) == SeqFilter(LAMBDA r : r.PartMaster_PKey # partKey, rows)

\* tx.part_data.createMany({ data: normalizedAttributes.map(...) })
createMany(rows, partKey, attributes) ==
  rows \o SeqMap(LAMBDA e : [PartMaster_PKey |-> partKey, attribute_ID |-> e.attributeId,
                             part_data |-> OrNull(e.value)],
                 attributes)

\* a write that leaves the part type of an existing row as it is
writePartKeepType(rows, partNumber, data) ==
  [rows EXCEPT ![partNumber] =
     [exists |-> TRUE, PartMaster_PKey |-> PKeyOf(partNumber), DescText |-> data.DescText,
      Revision |-> data.Revision, StockUOM |-> data.StockUOM, ISC |-> data.ISC,
      part_type_ID |-> IF rows[partNumber].exists THEN rows[partNumber].part_type_ID
                       ELSE data.part_type_ID]]

\* tx.partmaster.update / tx.partmaster.create: the five fields of baseData are
\* written, a created row gets its key
writePart(rows, partNumber, data) ==
  [rows EXCEPT ![partNumber] =
     [exists |-> TRUE, PartMaster_PKey |-> PKeyOf(partNumber), DescText |-> data.DescText,
      Revision |-> data.Revision, StockUOM |-> data.StockUOM, ISC |-> data.ISC,
      part_type_ID |-> data.part_type_ID]]

ApplyStatement(db, st) ==
  IF st.op = "writePart"
    THEN [db EXCEPT !.partmaster = writePart(db.partmaster, st.PartNumber, st.data)]
  ELSE IF st.op = "deleteMany"
    THEN [db EXCEPT !.part_data = deleteMany(db.part_data, st.key)]
  ELSE [db EXCEPT !.part_data = createMany(db.part_data, st.key, st.rows)]

RECURSIVE ApplyAll(_, _)
ApplyAll(db, statements) ==
  IF statements = <<>> THEN db
  ELSE ApplyAll(ApplyStatement(db, Head(statements)), Tail(statements))

\* the callback returned: the statements take effect together
commitTransaction(db, statements) == ApplyAll(db, statements)

\* statements issued on the client outside the transaction: those that ran stay
rollbackNothing(db, statements) == ApplyAll(db, statements)

\* the callback threw: prisma.$transaction rolls every statement back
rollbackTransaction(db, statements) == db

(***************************************************************************)
(* getPartDetail                                                           *)
(***************************************************************************)
NoDetail ==
  [found |-> FALSE, partNumber |-> <<>>, description |-> <<>>, revision |-> <<>>,
   stockUom |-> <<>>, status |-> <<>>, partTypeId |-> NullNum, attributes |-> <<>>]

getPartDetail(db, partNumber) ==
  LET trimmed == toSafeString(SomeStr(partNumber))
      part == db.partmaster[trimmed]
      Detail(entry) ==
        LET a == AttributeRow(entry.attribute_ID)
            code == IF a.some /\ a.v.attribute_code # <<>> THEN a.v.attribute_code
                    ELSE IntToString(entry.attribute_ID)
        IN  [attributeId |-> entry.attribute_ID, code |-> code,
             value |-> normalizeString(entry.part_data),
             requiredRule |-> IF a.some THEN a.v.required_rule ELSE NullStr]
      attributeDetails == SeqMap(Detail, RowsOf(db.part_data, part.PartMaster_PKey))
      subtypes == SeqFilter(LAMBDA d : normalizeAttributeCode(d.code) = <<"s","u","b","t","y","p","e">>,
                            attributeDetails)
      subtypeValue == IF subtypes = <<>> THEN <<>> ELSE subtypes[1].value
  IN  IF trimmed = <<>> \/ trimmed \notin DOMAIN db.partmaster \/ ~part.exists THEN NoDetail
      ELSE [found |-> TRUE, partNumber |-> trimmed,
            description |-> normalizeString(part.DescText),
            revision |-> normalizeString(part.Revision),
            stockUom |-> normalizeString(part.StockUOM),
            status |-> normalizeString(part.ISC),
            partTypeId |-> part.part_type_ID,
            attributes |->
              SeqMap(LAMBDA d : [attributeId |-> d.attributeId, code |-> d.code,
                                 value |-> d.value, requiredRule |-> d.requiredRule,
                                 required |-> evaluateRequirement(d.requiredRule, subtypeValue).required],
                     attributeDetails)]

(***************************************************************************)
(* Inputs of upsertPart                                                    *)
(***************************************************************************)
Attr(attributeId, value) == [attributeId |-> attributeId, value |-> value]

NoAttributes == [some |-> FALSE, v |-> <<>>]

Attributes(list) == [some |-> TRUE, v |-> list]

AttributeInputs ==
  { NoAttributes,
    Attributes(<<Attr(1, <<"S","M","D">>), Attr(2, <<"8">>)>>),
    Attributes(<<Attr(1, <<"T","H","T">>), Attr(3, <<"h","i"," ">>)>>),
    Attributes(<<Attr(1, <<"s","m","d">>)>>),
    Attributes(<<Attr(1, <<"S","M","D">>), Attr(2, <<" ","0","8","x">>), Attr(9, <<"z">>)>>),
    Attributes(<<Attr(2, <<"x">>)>>),
    Attributes(<<Attr(3, <<"n">>), Attr(4, <<"2",".","5">>)>>),
    Attributes(<<Attr(4, <<"9">>)>>),
    Attributes(<<Attr(3, <<"a">>), Attr(3, <<>>), Attr(4, <<"0","3">>)>>),
    Attributes(<<Attr(1, <<"T","H","T">>), Attr(1, <<"S","M","D">>)>>) }

PartNumberInputs == { <<" ">>, <<" ","P","1"," ">> }

PartTypeInputs == { NullNum, SomeNum(0), SomeNum(1), SomeNum(2) }

ScalarInputs ==
  { [description |-> SomeStr(<<"C","a","p"," ">>), revision |-> SomeStr(<<"A">>),
     stockUom |-> SomeStr(<<"E","A">>), status |-> SomeStr(<<"A","C","T">>)],
    [description |-> SomeStr(<<"R","e","s">>), revision |-> SomeStr(<<" ">>),
     stockUom |-> NullStr, status |-> SomeStr(<<"O","B","S">>)] }

MakePayload(partNumber, scalars, partTypeId, attributes) ==
  [partNumber |-> partNumber, description |-> scalars.description,
   revision |-> scalars.revision, stockUom |-> scalars.stockUom, status |-> scalars.status,
   partTypeId |-> partTypeId, attributes |-> attributes]

Payloads ==
  { MakePayload(n, s, t, a) :
      n \in PartNumberInputs, s \in ScalarInputs, t \in PartTypeInputs, a \in AttributeInputs }

\* the payloads of the specification with two calls at a time: all name part P1
ConcurrentPayloads ==
  { p \in Payloads :
      /\ p.partNumber = <<" ","P","1"," ">>
      /\ \/ /\ p.partTypeId = SomeNum(1) /\ p.status = SomeStr(<<"A","C","T">>)
            /\ p.attributes = Attributes(<<Attr(1, <<"S","M","D">>), Attr(2, <<"8">>)>>)
         \/ /\ p.partTypeId = SomeNum(2) /\ p.status = SomeStr(<<"O","B","S">>)
            /\ p.attributes = Attributes(<<Attr(3, <<"n">>), Attr(4, <<"2",".","5">>)>>)
         \/ /\ p.partTypeId = NullNum /\ p.status = SomeStr(<<"O","B","S">>)
            /\ p.attributes = Attributes(<<Attr(1, <<"T","H","T">>), Attr(3, <<"h","i"," ">>)>>) }

NoPayload ==
  MakePayload(<<>>, [description |-> NullStr, revision |-> NullStr, stockUom |-> NullStr,
                     status |-> NullStr], NullNum, NoAttributes)

Calls == {1, 2}

InFlight == {"find", "writePart", "deleteMany", "createMany", "commit", "reload"}

InTransaction == {"deleteMany", "createMany", "commit"}

PartNumberOf(c) == toSafeString(SomeStr(payload[c].partNumber))

(***************************************************************************)
(* Initial stores: part P1 is absent, or a legacy row without a part type,  *)
(* or a part of type 1 with attributes; part P2 is a part of type 2.        *)
(***************************************************************************)
LegacyRow(partNumber, partTypeId) ==
  [exists |-> TRUE, PartMaster_PKey |-> PKeyOf(partNumber),
   DescText |-> SomeStr(<<"o","l","d">>), Revision |-> NullStr, StockUOM |-> NullStr,
   ISC |-> NullStr, part_type_ID |-> partTypeId]

DataRow(partKey, attributeId, value) ==
  [PartMaster_PKey |-> partKey, attribute_ID |-> attributeId, part_data |-> value]

InitialStores ==
  { [partmaster |-> (P1 :> NoRow @@ P2 :> LegacyRow(P2, SomeNum(2))),
     part_data |-> <<DataRow(2, 4, SomeStr(<<"1",".","5">>))>>],
    [partmaster |-> (P1 :> LegacyRow(P1, NullNum) @@ P2 :> LegacyRow(P2, SomeNum(2))),
     part_data |-> <<DataRow(2, 4, SomeStr(<<"1",".","5">>))>>],
    [partmaster |-> (P1 :> LegacyRow(P1, SomeNum(1)) @@ P2 :> LegacyRow(P2, SomeNum(2))),
     part_data |-> <<DataRow(1, 1, SomeStr(<<"T","H","T">>)), DataRow(2, 4, SomeStr(<<"1",".","5">>)),
                     DataRow(1, 3, SomeStr(<<"o","l","d">>))>>] }

\* what the store holds for a part: its row and its attribute rows
StoreEntry(db, partNumber) ==
  [row |-> db.partmaster[partNumber],
   attrs |-> SeqMap(LAMBDA r : [attributeId |-> r.attribute_ID, part_data |-> r.part_data],
                    RowsOf(db.part_data, PKeyOf(partNumber)))]

NoEntry == [some |-> FALSE, v |-> [row |-> NoRow, attrs |-> <<>>]]

NoResult == [ok |-> FALSE, error |-> <<>>, detail |-> NoDetail]

Failed(message) == [ok |-> FALSE, error |-> message, detail |-> NoDetail]

\* the query parameters of a request; a parameter that is not sent is null
NoRequest ==
  [partNumber |-> NullStr, description |-> NullStr, inStock |-> NullStr, limit |-> NullStr,
   search |-> NullStr, assembly |-> NullStr, bomLimit |-> NullNum]

NoResponse == [status |-> 0, data |-> <<>>, by |-> "none"]

\* the argument of searchParts: the filter record, or the term of the first variants
Options(partNumber, description, inStockOnly, limit, term) ==
  [partNumber |-> partNumber, description |-> description, inStockOnly |-> inStockOnly,
   limit |-> limit, term |-> term]

NotInvoked == [called |-> FALSE, options |-> Options(<<>>, <<>>, FALSE, NullNum, <<>>)]

\* no call of upsertPart is running
CallsIdle ==
  /\ rowLock = [n \in PartNumbers |-> 0]
  /\ pc = [c \in Calls |-> "idle"]
  /\ payload = [c \in Calls |-> NoPayload]
  /\ allowCreate = [c \in Calls |-> FALSE]
  /\ existingPart = [c \in Calls |-> NotFoundPart]
  /\ effectivePartTypeId = [c \in Calls |-> 0]
  /\ normalizedAttributes = [c \in Calls |-> <<>>]
  /\ tx = [c \in Calls |-> <<>>]
  /\ result = [c \in Calls |-> NoResult]
  /\ wrote = [c \in Calls |-> FALSE]
  /\ repeatOf = [c \in Calls |-> NoEntry]
  /\ overlap = FALSE

\* no function of the rule engine has been called
NoCall == [fn |-> "none"]

NoReturn == [done |-> FALSE]

RulesIdle ==
  /\ ruleCall = NoCall
  /\ ruleResult = NoReturn

MaxSyncRequests == 3

SyncRequests == 1..MaxSyncRequests

\* a POST that has not arrived
NoSync ==
  [pc |-> "none", step |-> 0, status |-> 0, commands |-> <<>>, sawInProgress |-> FALSE,
   order |-> 0]

\* no synchronization has been asked for
SyncIdle ==
  /\ prismaSyncInProgress = FALSE
  /\ syncEnv = [variant |-> "none", databaseUrl |-> FALSE]
  /\ sync = [r \in SyncRequests |-> NoSync]

MaxSearches == 3

Searches == 1..MaxSearches

\* the form as the page loads it
NoFilters == [partQuery |-> "", descriptionQuery |-> "", inStockOnly |-> FALSE]

\* a call of performSearch that has not been made
NoSearch == [pc |-> "none", query |-> NoFilters, parts |-> <<>>]

\* const referenceCache = { locations: [], locationsLoaded: false, locationsPromise: null }
EmptyCache ==
  [locations |-> 0, locationsLoaded |-> FALSE, locationsPromise |-> FALSE,
   waiting |-> <<>>]

\* showMessage(message) leaves one row with the message; lastParts = []
Message(message) == [message |-> message, rows |-> <<>>]

\* the inventory page after initInventorySearch
UiIdle ==
  /\ filters = NoFilters
  /\ debounceTimer = FALSE
  /\ activeController = 0
  /\ searches = [s \in Searches |-> NoSearch]
  /\ triggered = 0
  /\ referenceCache = EmptyCache
  /\ resultsBody = Message("Adjust the filters to search for parts.")
  /\ lastParts = <<>>

\* no request is being answered
ServerIdle ==
  /\ request = NoRequest
  /\ response = NoResponse
  /\ invoked = NotInvoked
  /\ bomRows = <<>>

UpsertInit ==
  /\ \E db \in InitialStores :
       /\ partmaster = db.partmaster
       /\ part_data = db.part_data
       /\ committed = [n \in PartNumbers |-> StoreEntry(db, n)]
  /\ CallsIdle
  /\ ServerIdle
  /\ SyncIdle
  /\ UiIdle
  /\ RulesIdle
  /\ inventorylots = <<>>
  /\ inventorytags = <<>>
  /\ bom = <<>>

(***************************************************************************)
(* upsertPart, one action per await                                        *)
(***************************************************************************)
\* upsertPart(payload, allowCreate) is called: the part number is checked and
\* findUnique is issued
Call(c, menu) ==
  /\ UNCHANGED <<searchVars, ruleVars, syncVars, uiVars>>
  /\ pc[c] \in {"idle", "done", "failed"}
  /\ \E p \in menu, mayCreate \in BOOLEAN :
       LET partNumber == toSafeString(SomeStr(p.partNumber))
       IN  /\ payload' = [payload EXCEPT ![c] = p]
           /\ allowCreate' = [allowCreate EXCEPT ![c] = mayCreate]
           /\ repeatOf' = [repeatOf EXCEPT ![c] =
                IF pc[c] = "done" /\ payload[c] = p /\ allowCreate[c] = mayCreate
                  THEN [some |-> TRUE, v |-> StoreEntry(Db, partNumber)]
                  ELSE NoEntry]
           /\ IF partNumber = <<>>
                THEN /\ pc' = [pc EXCEPT ![c] = "failed"]
                     /\ result' = [result EXCEPT ![c] = Failed(MsgPartNumberRequired)]
                ELSE /\ pc' = [pc EXCEPT ![c] = "find"]
                     /\ result' = [result EXCEPT ![c] = NoResult]
  /\ existingPart' = [existingPart EXCEPT ![c] = NotFoundPart]
  /\ effectivePartTypeId' = [effectivePartTypeId EXCEPT ![c] = 0]
  /\ normalizedAttributes' = [normalizedAttributes EXCEPT ![c] = <<>>]
  /\ tx' = [tx EXCEPT ![c] = <<>>]
  /\ wrote' = [wrote EXCEPT ![c] = FALSE]
  /\ overlap' = \E d \in Calls \ {c} : pc[d] \in InFlight
  /\ UNCHANGED <<partmaster, part_data, rowLock, committed>>

\* findUnique answers; the part type, the attributes and the permission to
\* create are checked; on success the transaction is opened
Prepared(c, existing, prepared) ==
  /\ existingPart' = [existingPart EXCEPT ![c] = existing]
  /\ pc' = [pc EXCEPT ![c] = IF prepared.ok THEN "writePart" ELSE "failed"]
  /\ effectivePartTypeId' = [effectivePartTypeId EXCEPT ![c] = prepared.partTypeId]
  /\ normalizedAttributes' = [normalizedAttributes EXCEPT ![c] = prepared.attributes]
  /\ result' = [result EXCEPT ![c] = IF prepared.ok THEN NoResult ELSE Failed(prepared.error)]

Found(c, existing) ==
  Prepared(c, existing, upsertPrepare(payload[c], existing, allowCreate[c]))

FindExisting(c) ==
  /\ UNCHANGED <<searchVars, ruleVars, syncVars, uiVars>>
  /\ pc[c] = "find"
  /\ Found(c, findUnique(partmaster, PartNumberOf(c)))
  /\ UNCHANGED <<partmaster, part_data, rowLock, payload, allowCreate, tx, wrote, committed,
                 repeatOf, overlap>>

\* tx.partmaster.update or tx.partmaster.create.  The store lets one open
\* transaction at a time write a partmaster row (row lock, unique key); a create
\* of a part number that has a row by now violates the unique key.
TxWritePart(c) ==
  /\ UNCHANGED <<searchVars, ruleVars, syncVars, uiVars>>
  /\ pc[c] = "writePart"
  /\ rowLock[PartNumberOf(c)] = 0
  /\ IF ~existingPart[c].found /\ partmaster[PartNumberOf(c)].exists
       THEN /\ pc' = [pc EXCEPT ![c] = "failed"]
            /\ result' = [result EXCEPT ![c] = Failed(PrismaError)]
            /\ UNCHANGED <<tx, rowLock>>
       ELSE /\ pc' = [pc EXCEPT ![c] = "deleteMany"]
            /\ tx' = [tx EXCEPT ![c] =
                 <<Statement("writePart", PartNumberOf(c),
                             baseData(payload[c], effectivePartTypeId[c]), 0, <<>>)>>]
            /\ rowLock' = [rowLock EXCEPT ![PartNumberOf(c)] = c]
            /\ result' = result
  /\ UNCHANGED <<partmaster, part_data, payload, allowCreate, existingPart,
                 effectivePartTypeId, normalizedAttributes, wrote, committed, repeatOf, overlap>>

\* tx.part_data.deleteMany for the key of the written row
TxDeleteMany(c) ==
  /\ UNCHANGED <<searchVars, ruleVars, syncVars, uiVars>>
  /\ pc[c] = "deleteMany"
  /\ pc' = [pc EXCEPT ![c] = "createMany"]
  /\ tx' = [tx EXCEPT ![c] =
       Append(tx[c], Statement("deleteMany", PartNumberOf(c), NoRow,
                               PKeyOf(PartNumberOf(c)), <<>>))]
  /\ UNCHANGED <<partmaster, part_data, rowLock, payload, allowCreate, existingPart,
                 effectivePartTypeId, normalizedAttributes, result, wrote, committed,
                 repeatOf, overlap>>

\* tx.part_data.createMany, skipped when there is nothing to insert
TxCreateMany(c) ==
  /\ UNCHANGED <<searchVars, ruleVars, syncVars, uiVars>>
  /\ pc[c] = "createMany"
  /\ pc' = [pc EXCEPT ![c] = "commit"]
  /\ tx' = [tx EXCEPT ![c] =
       IF normalizedAttributes[c] # <<>>
         THEN Append(tx[c], Statement("createMany", PartNumberOf(c), NoRow,
                                      PKeyOf(PartNumberOf(c)), normalizedAttributes[c]))
         ELSE tx[c]]
  /\ UNCHANGED <<partmaster, part_data, rowLock, payload, allowCreate, existingPart,
                 effectivePartTypeId, normalizedAttributes, result, wrote, committed,
                 repeatOf, overlap>>

\* what a call means to leave in the store for its part
Intended(p, partTypeId, attributes) ==
  LET partNumber == toSafeString(SomeStr(p.partNumber))
  IN  [row |-> writePart([n \in {partNumber} |-> NoRow], partNumber,
                         baseData(p, partTypeId))[partNumber],
       attrs |-> SeqMap(LAMBDA e : [attributeId |-> e.attributeId, part_data |-> OrNull(e.value)],
                        attributes)]

\* the callback returns and the transaction commits
TxCommit(c) ==
  /\ UNCHANGED <<searchVars, ruleVars, syncVars, uiVars>>
  /\ pc[c] = "commit"
  /\ LET after == commitTransaction(Db, tx[c])
     IN  /\ partmaster' = after.partmaster
         /\ part_data' = after.part_data
  /\ rowLock' = [rowLock EXCEPT ![PartNumberOf(c)] = 0]
  /\ committed' = [committed EXCEPT ![PartNumberOf(c)] =
       Intended(payload[c], effectivePartTypeId[c], normalizedAttributes[c])]
  /\ wrote' = [wrote EXCEPT ![c] = TRUE]
  /\ tx' = [tx EXCEPT ![c] = <<>>]
  /\ pc' = [pc EXCEPT ![c] = "reload"]
  /\ UNCHANGED <<payload, allowCreate, existingPart, effectivePartTypeId,
                 normalizedAttributes, result, repeatOf, overlap>>

\* a query or statement of the call fails in the store; inside the transaction
\* the error leaves the callback and the transaction is rolled back
StoreFailure(c) ==
  /\ UNCHANGED <<searchVars, ruleVars, syncVars, uiVars>>
  /\ pc[c] \in InFlight
  /\ LET after == IF pc[c] \in InTransaction THEN rollbackTransaction(Db, tx[c]) ELSE Db
     IN  /\ partmaster' = after.partmaster
         /\ part_data' = after.part_data
         /\ wrote' = [wrote EXCEPT ![c] = wrote[c] \/ after # Db]
  /\ rowLock' = [n \in PartNumbers |-> IF rowLock[n] = c THEN 0 ELSE rowLock[n]]
  /\ tx' = [tx EXCEPT ![c] = <<>>]
  /\ pc' = [pc EXCEPT ![c] = "failed"]
  /\ result' = [result EXCEPT ![c] = Failed(PrismaError)]
  /\ UNCHANGED <<payload, allowCreate, existingPart, effectivePartTypeId,
                 normalizedAttributes, committed, repeatOf, overlap>>

\* the post-commit getPartDetail, whose answer upsertPart returns
Reload(c) ==
  /\ UNCHANGED <<searchVars, ruleVars, syncVars, uiVars>>
  /\ pc[c] = "reload"
  /\ pc' = [pc EXCEPT ![c] = "done"]
  /\ result' = [result EXCEPT ![c] =
       [ok |-> TRUE, error |-> <<>>, detail |-> getPartDetail(Db, payload[c].partNumber)]]
  /\ UNCHANGED <<partmaster, part_data, rowLock, payload, allowCreate, existingPart,
                 effectivePartTypeId, normalizedAttributes, tx, wrote, committed, repeatOf,
                 overlap>>

vars == <<upsertVars, searchVars, ruleVars, syncVars, uiVars>>

Init == UpsertInit

\* one caller at a time
Next ==
  \E c \in {1} :
    \/ Call(c, Payloads)
    \/ FindExisting(c)
    \/ TxWritePart(c)
    \/ TxDeleteMany(c)
    \/ TxCreateMany(c)
    \/ TxCommit(c)
    \/ StoreFailure(c)
    \/ Reload(c)

Spec == Init /\ [][Next]_vars

\* two callers at a time on part P1
NextConcurrent ==
  \E c \in Calls :
    \/ Call(c, ConcurrentPayloads)
    \/ FindExisting(c)
    \/ TxWritePart(c)
    \/ TxDeleteMany(c)
    \/ TxCreateMany(c)
    \/ TxCommit(c)
    \/ StoreFailure(c)
    \/ Reload(c)

SpecConcurrent == Init /\ [][NextConcurrent]_vars

(***************************************************************************)
(* The part search: what the store computes for searchParts' SQL            *)
(***************************************************************************)
\* value.replace(/\s+/g, ' ')
RECURSIVE CollapseWhitespace(_)
CollapseWhitespace(s) ==
  IF s = <<>> THEN <<>>
  ELSE IF IsSpace(Head(s)) THEN <<" ">> \o CollapseWhitespace(TrimLeft(s))
  ELSE <<Head(s)>> \o CollapseWhitespace(Tail(s))

\* value.replace(/[^a-z0-9]/g, '')
KeepLowerAlnum(s) == SeqFilter(LAMBDA c : c \in Range(LowerChars) \cup Range(DigitChars), s)

\* REPLACE(text, from, '') with a one-character from
REPLACE(text, from) == SeqFilter(LAMBDA c : c # from, text)

\* text LIKE pattern: % is any run of characters, _ any one character, \ takes
\* the next pattern character literally
RECURSIVE LIKE(_, _)
LIKE(text, pattern) ==
  IF pattern = <<>> THEN text = <<>>
  ELSE IF Head(pattern) = "%"
    THEN LIKE(text, Tail(pattern)) \/ (text # <<>> /\ LIKE(Tail(text), pattern))
  ELSE IF Head(pattern) = "\\" /\ Len(pattern) > 1
    THEN text # <<>> /\ Head(text) = pattern[2] /\ LIKE(Tail(text), Tail(Tail(pattern)))
  ELSE /\ text # <<>>
       /\ (Head(pattern) = "_" \/ Head(pattern) = Head(text))
       /\ LIKE(Tail(text), Tail(pattern))

\* SUM over the values of a group: NULL values are skipped, no value gives NULL
SumStep(value, rest) ==
  IF ~value.some THEN rest
  ELSE IF ~rest.some THEN value
  ELSE SomeNum(value.v + rest.v)

RECURSIVE SUM(_)
SUM(values) == IF values = <<>> THEN NullNum ELSE SumStep(Head(values), SUM(Tail(values)))

COALESCE(value, default) == IF value.some THEN value.v ELSE default

GREATEST(a, b) == IF a >= b THEN a ELSE b

\* Math.max without the clamp
MathFirst(a, b) == a

MathMax(a, b) == IF a >= b THEN a ELSE b

MathMin(a, b) == IF a <= b THEN a ELSE b

\* the store's collation: space, punctuation, digits, letters without case
CollationOrder == <<" ", "%", "*", "-", ".">> \o DigitChars \o LowerChars

CharRank(c) == CHOOSE i \in DOMAIN CollationOrder : CollationOrder[i] = LowerChar(c)

\* a sorts before b
RECURSIVE CollatesBefore(_, _)
CollatesBefore(a, b) ==
  IF b = <<>> THEN FALSE
  ELSE IF a = <<>> THEN TRUE
  ELSE IF CharRank(Head(a)) # CharRank(Head(b)) THEN CharRank(Head(a)) < CharRank(Head(b))
  ELSE CollatesBefore(Tail(a), Tail(b))

\* a stable sort: x goes after the elements that are not after it
RECURSIVE SortInsert(_, _, _)
SortInsert(Before(_, _), x, sorted) ==
  IF sorted = <<>> THEN <<x>>
  ELSE IF Before(x, Head(sorted)) THEN <<x>> \o sorted
  ELSE <<Head(sorted)>> \o SortInsert(Before, x, Tail(sorted))

RECURSIVE SortBy(_, _)
SortBy(Before(_, _), rows) ==
  IF rows = <<>> THEN <<>>
  ELSE SortInsert(Before, rows[Len(rows)], SortBy(Before, SubSeq(rows, 1, Len(rows) - 1)))

\* the catalogue of the search: part numbers in the order of the table
AB1 == <<"A","B","1">>

AB_1 == <<"A","B","-","1">>

B_2 == <<"B","-","2">>

C3 == <<"C"," ","3">>

ADotB_1 == <<"A",".","B","-","1">>

TableOrder == <<B_2, AB1, C3, ADotB_1, AB_1>>

SearchDb ==
  [partmaster |-> partmaster, inventorylots |-> inventorylots,
   inventorytags |-> inventorytags, bom |-> bom]

\* FROM partmaster pm
TableRows(rows) == SeqFilter(LAMBDA n : n \in DOMAIN rows /\ rows[n].exists, TableOrder)

\* the derived table il: SUM(Quantity) per PartNumber
quantityOnHand(lots, partNumber) ==
  SUM(SeqMap(LAMBDA r : r.Quantity, SeqFilter(LAMBDA r : r.PartNumber = partNumber, lots)))

\* the derived table it: SUM(InventoryQuantity) per PartNumber WHERE it IS NOT NULL
quantityAllocated(tags, partNumber) ==
  SUM(SeqMap(LAMBDA r : r.InventoryQuantity,
             SeqFilter(LAMBDA r : r.PartNumber = partNumber /\ r.InventoryQuantity.some, tags)))

\* one row of the SELECT, before WHERE
SelectPart(db, partNumber) ==
  [PartNumber |-> partNumber,
   DescText |-> db.partmaster[partNumber].DescText,
   Revision |-> db.partmaster[partNumber].Revision,
   StockUOM |-> db.partmaster[partNumber].StockUOM,
   ISC |-> db.partmaster[partNumber].ISC,
   hasBom |-> \E i \in DOMAIN db.bom : db.bom[i].Assembly = partNumber,
   availableQuantity |->
     SomeNum(GREATEST(COALESCE(quantityOnHand(db.inventorylots, partNumber), 0)
                      - COALESCE(quantityAllocated(db.inventorytags, partNumber), 0), 0))]

(***************************************************************************)
(* searchParts                                                             *)
(***************************************************************************)
\* the three LIKE predicates on the part number
partNumberLike(lowerPart, collapsedPart, stored) ==
  \/ LIKE(stored, lowerPart \o <<"%">>)
  \/ LIKE(stored, <<"%">> \o lowerPart \o <<"%">>)
  \/ LIKE(REPLACE(REPLACE(stored, "-"), " "),
          <<"%">> \o (IF collapsedPart # <<>> THEN collapsedPart ELSE lowerPart) \o <<"%">>)

partNumberGroup(lowerPart, row) ==
  partNumberLike(lowerPart, KeepLowerAlnum(lowerPart), toLowerCase(row.PartNumber))

\* the two LIKE predicates on the description
descriptionLike(lowerDescription, collapsedDescription, stored) ==
  \/ LIKE(stored, <<"%">> \o lowerDescription \o <<"%">>)
  \/ LIKE(REPLACE(REPLACE(stored, "-"), " "),
          <<"%">> \o (IF collapsedDescription # <<>> THEN collapsedDescription
                      ELSE lowerDescription) \o <<"%">>)

descriptionGroup(lowerDescription, row) ==
  descriptionLike(lowerDescription, KeepLowerAlnum(lowerDescription),
                  toLowerCase(COALESCE(row.DescText, <<>>)))

\* the clauses pushed on whereClauses, by name
whereClauses(partNumber, description, inStockOnly) ==
  (IF partNumber # <<>> THEN <<"partNumber">> ELSE <<>>)
  \o (IF description # <<>> THEN <<"description">> ELSE <<>>)
  \o (IF inStockOnly THEN <<"inStock">> ELSE <<>>)

clauseHolds(clause, partNumber, description, row) ==
  IF clause = "partNumber"
    THEN partNumberGroup(toLowerCase(CollapseWhitespace(partNumber)), row)
  ELSE IF clause = "description"
    THEN descriptionGroup(toLowerCase(CollapseWhitespace(description)), row)
  ELSE row.availableQuantity.v > 0

\* clauses joined with OR
JoinOr(truths) == truths = <<>> \/ \E i \in DOMAIN truths : truths[i]

\* Prisma.join(whereClauses, ' AND '); no WHERE at all without clauses
JoinAnd(truths) == \A i \in DOMAIN truths : truths[i]

whereClause(clauses, partNumber, description, row) ==
  JoinAnd([i \in DOMAIN clauses |-> clauseHolds(clauses[i], partNumber, description, row)])

\* ORDER BY pm.PartNumber ASC
orderByPartNumber(rows) == SortBy(LAMBDA a, b : CollatesBefore(a.PartNumber, b.PartNumber), rows)

\* a LIMIT that is not applied
limitNone(rows, limit) == rows

\* LIMIT ${limit} when the requested limit is a number above 0
limitRows(rows, limit) ==
  IF limit.some /\ limit.v > 0 THEN SubSeq(rows, 1, MathMin(limit.v, Len(rows))) ELSE rows

asNumber(value) == IF value.some THEN value.v ELSE 0

mapPartResult(record) ==
  [partNumber |-> trim(record.PartNumber),
   description |-> trim(normalizeString(record.DescText)),
   revision |-> trim(normalizeString(record.Revision)),
   stockUom |-> trim(normalizeString(record.StockUOM)),
   status |-> trim(normalizeString(record.ISC)),
   availableQuantity |-> MathMax(0, asNumber(record.availableQuantity)),
   hasBom |-> record.hasBom]

queryRows(db, partNumber, description, inStockOnly, limit) ==
  limitRows(
    orderByPartNumber(
      SeqFilter(LAMBDA row : whereClause(whereClauses(partNumber, description, inStockOnly),
                                         partNumber, description, row),
                SeqMap(LAMBDA n : SelectPart(db, n), TableRows(db.partmaster)))),
    limit)

searchParts(db, options) ==
  SeqMap(mapPartResult,
         queryRows(db, trim(options.partNumber), trim(options.description),
                   options.inStockOnly, options.limit))

\* the first variants' searchParts(term): prefix on the part number or
\* containment in the description, under the store's caseless collation
LegacyLimit == 25

SelectLegacy(db, partNumber) ==
  [PartNumber |-> partNumber,
   DescText |-> db.partmaster[partNumber].DescText,
   Revision |-> db.partmaster[partNumber].Revision,
   StockUOM |-> db.partmaster[partNumber].StockUOM,
   ISC |-> db.partmaster[partNumber].ISC,
   hasBom |-> FALSE,
   availableQuantity |-> NullNum]

termWhere(trimmed, row) ==
  \/ LIKE(toLowerCase(row.PartNumber), toLowerCase(trimmed) \o <<"%">>)
  \/ /\ row.DescText.some
     /\ LIKE(toLowerCase(row.DescText.v), <<"%">> \o toLowerCase(trimmed) \o <<"%">>)

searchPartsByTerm(db, term) ==
  IF trim(term) = <<>> THEN <<>>
  ELSE SeqMap(mapPartResult,
              limitRows(orderByPartNumber(
                          SeqFilter(LAMBDA row : termWhere(trim(term), row),
                                    SeqMap(LAMBDA n : SelectLegacy(db, n),
                                           TableRows(db.partmaster)))),
                        SomeNum(LegacyLimit)))

(***************************************************************************)
(* The HTTP handlers of the part search                                    *)
(***************************************************************************)
DefaultPartLimit == 100

resolveQueryParam(value) == IF value.some THEN value.v ELSE <<>>

parseBooleanFlag(value) ==
  /\ value.some
  /\ toLowerCase(trim(value.v)) \in {<<"t","r","u","e">>, <<"1">>, <<"y","e","s">>, <<"o","n">>}

resolveParsedLimit(parsed) ==
  IF ~parsed.some \/ parsed.v <= 0 THEN SomeNum(DefaultPartLimit) ELSE SomeNum(parsed.v)

resolveNormalizedLimit(normalized) ==
  IF normalized = <<>> THEN SomeNum(DefaultPartLimit)
  ELSE IF normalized \in {<<"a","l","l">>, <<"f","a","l","s","e">>, <<"0">>, <<"o","f","f">>, <<"n","o">>} THEN NullNum
  ELSE resolveParsedLimit(parseInt(normalized))

resolvePartResultLimit(value) ==
  resolveNormalizedLimit(toLowerCase(trim(resolveQueryParam(value))))

\* a guard that lets every request through
hasNoFilterNever(partNumber, description, inStockOnly) == FALSE

\* the guard of the filter handlers
hasNoFilter(partNumber, description, inStockOnly) ==
  Len(partNumber) = 0 /\ Len(description) = 0 /\ ~inStockOnly

\* what a filter handler does once it has read its parameters: reject, or call
\* searchParts and answer 200, or 500 when the query fails
filterHandler(by, q, partNumber, description, inStockOnly, limit, fails) ==
  /\ request' = q
  /\ invoked' =
       IF hasNoFilter(partNumber, description, inStockOnly) THEN NotInvoked
       ELSE [called |-> TRUE,
             options |-> Options(partNumber, description, inStockOnly, limit, <<>>)]
  /\ response' =
       IF hasNoFilter(partNumber, description, inStockOnly)
         THEN [status |-> 400, data |-> <<>>, by |-> by]
       ELSE IF fails THEN [status |-> 500, data |-> <<>>, by |-> by]
       ELSE [status |-> 200, by |-> by,
             data |-> searchParts(SearchDb,
                                  Options(partNumber, description, inStockOnly, limit, <<>>))]
  /\ UNCHANGED <<inventorylots, inventorytags, bom, bomRows>>
  /\ UNCHANGED <<upsertVars, ruleVars, syncVars, uiVars>>

\* the same for the handlers of the first variants, which read `search`
termHandler(by, q, searchTerm, fails) ==
  /\ request' = q
  /\ invoked' =
       IF Len(trim(searchTerm)) = 0 THEN NotInvoked
       ELSE [called |-> TRUE, options |-> Options(<<>>, <<>>, FALSE, NullNum, searchTerm)]
  /\ response' =
       IF Len(trim(searchTerm)) = 0 THEN [status |-> 400, data |-> <<>>, by |-> by]
       ELSE IF fails THEN [status |-> 500, data |-> <<>>, by |-> by]
       ELSE [status |-> 200, by |-> by, data |-> searchPartsByTerm(SearchDb, searchTerm)]
  /\ UNCHANGED <<inventorylots, inventorytags, bom, bomRows>>
  /\ UNCHANGED <<upsertVars, ruleVars, syncVars, uiVars>>

(***************************************************************************)
(* getBillOfMaterials (the variant that reads through the Prisma models)    *)
(***************************************************************************)
BomDefaultLimit == 100

BomAssemblyLimit == 200

BomLimitCap == 200

safeLimit(requestedLimit, sanitizedAssembly) ==
  IF requestedLimit.some /\ requestedLimit.v > 0 THEN MathMin(requestedLimit.v, BomLimitCap)
  ELSE IF Len(sanitizedAssembly) > 0 THEN BomAssemblyLimit
  ELSE BomDefaultLimit

\* prisma.bom.findMany({ where, take })
findManyBom(rows, sanitizedAssembly, take) ==
  limitRows(SeqFilter(LAMBDA r : Len(sanitizedAssembly) = 0 \/ r.Assembly = sanitizedAssembly,
                      rows),
            SomeNum(take))

\* coerceNumber of a column that holds text or NULL: parseFloat, null for NaN
\* (the number is in tenths)
coerceNumber(value) == IF value.some THEN parseFloat(value.v) ELSE NullNum

\* seqA !== null && seqB !== null && seqA !== seqB
sequencesDiffer(seqA, seqB) == seqA.some /\ seqB.some /\ seqA.v # seqB.v

\* the comparator of the sort, as "a goes before b"
bomBefore(a, b) ==
  IF a.Assembly # b.Assembly THEN CollatesBefore(a.Assembly, b.Assembly)
  ELSE IF sequencesDiffer(coerceNumber(a.ItemSequence), coerceNumber(b.ItemSequence))
    THEN coerceNumber(a.ItemSequence).v < coerceNumber(b.ItemSequence).v
  ELSE CollatesBefore(a.Component, b.Component)

\* the comparator orders the rows: "before" and "neither before the other" are
\* both transitive
consistentComparator(rows) ==
  \A i, j, k \in DOMAIN rows :
    /\ (bomBefore(rows[i], rows[j]) /\ bomBefore(rows[j], rows[k]))
         => bomBefore(rows[i], rows[k])
    /\ (/\ ~bomBefore(rows[i], rows[j]) /\ ~bomBefore(rows[j], rows[i])
        /\ ~bomBefore(rows[j], rows[k]) /\ ~bomBefore(rows[k], rows[j]))
         => (~bomBefore(rows[i], rows[k]) /\ ~bomBefore(rows[k], rows[i]))

Orderings(rows) ==
  { [i \in DOMAIN rows |-> rows[p[i]]] :
      p \in { q \in [DOMAIN rows -> DOMAIN rows] :
                \A i, j \in DOMAIN rows : q[i] = q[j] => i = j } }

\* [...bomRows].sort(comparator): the stable sorted order when the comparator
\* orders the rows; with a comparator that does not, the order is whatever the
\* engine's algorithm leaves, any permutation
sortedRows(rows) ==
  IF consistentComparator(rows) THEN {SortBy(bomBefore, rows)} ELSE Orderings(rows)

\* onHandMap.get(component) ?? 0 and allocatedMap.get(component) ?? 0: a group
\* is in the map when its sum is a number
mapGet(component, sum) == IF Len(component) > 0 /\ sum.some THEN sum.v ELSE 0

bomAvailable(db, component) ==
  MathMax(mapGet(component, quantityOnHand(db.inventorylots, component))
          - mapGet(component, quantityAllocated(db.inventorytags, component)), 0)

bomRecord(db, record) ==
  [assembly |-> trim(record.Assembly), component |-> trim(record.Component),
   itemSequence |-> record.ItemSequence,
   availableQuantity |-> bomAvailable(db, trim(record.Component))]

\* the results getBillOfMaterials can return
getBillOfMaterials(db, limit, assembly) ==
  { SeqMap(LAMBDA record : bomRecord(db, record), sorted) :
      sorted \in sortedRows(findManyBom(db.bom, trim(resolveQueryParam(assembly)),
                                        safeLimit(limit, trim(resolveQueryParam(assembly))))) }

(***************************************************************************)
(* getBillOfMaterials (the variants that run one SQL query)                 *)
(***************************************************************************)
SequenceSentinel == 999999

\* CASE WHEN ItemSequence REGEXP '^[0-9]+$' THEN CAST(ItemSequence AS UNSIGNED)
\* ELSE 999999 END
sequenceKey(itemSequence) ==
  IF itemSequence.some /\ itemSequence.v # <<>>
       /\ DigitRun(itemSequence.v, 1) = Len(itemSequence.v)
    THEN DigitsValue(itemSequence.v)
    ELSE SequenceSentinel

\* ORDER BY b.Assembly ASC, CASE ... END, b.Component ASC
orderByBom(a, b) ==
  IF CollatesBefore(a.Assembly, b.Assembly) \/ CollatesBefore(b.Assembly, a.Assembly)
    THEN CollatesBefore(a.Assembly, b.Assembly)
  ELSE IF sequenceKey(a.ItemSequence) # sequenceKey(b.ItemSequence)
    THEN sequenceKey(a.ItemSequence) < sequenceKey(b.ItemSequence)
  ELSE CollatesBefore(a.Component, b.Component)

\* one row of the SELECT through mapRecord
bomRecordSql(db, record) ==
  [assembly |-> trim(record.Assembly), component |-> trim(record.Component),
   itemSequence |-> record.ItemSequence,
   availableQuantity |->
     GREATEST(COALESCE(quantityOnHand(db.inventorylots, record.Component), 0)
              - COALESCE(quantityAllocated(db.inventorytags, record.Component), 0), 0)]

getBillOfMaterialsSql(db, limit, assembly) ==
  SeqMap(LAMBDA record : bomRecordSql(db, record),
         limitRows(SortBy(orderByBom,
                          SeqFilter(LAMBDA r : Len(trim(resolveQueryParam(assembly))) = 0
                                                 \/ r.Assembly = trim(resolveQueryParam(assembly)),
                                    db.bom)),
                   SomeNum(safeLimit(limit, trim(resolveQueryParam(assembly))))))

(***************************************************************************)
(* Inputs of the search: store contents and requests                        *)
(***************************************************************************)
MaxLimit == 2

CatalogueRow(partNumber, description) ==
  [exists |-> TRUE, PartMaster_PKey |-> CharRank(partNumber[Len(partNumber)]),
   DescText |-> description, Revision |-> SomeStr(<<"A", " ">>), StockUOM |-> SomeStr(<<"E","A">>),
   ISC |-> NullStr, part_type_ID |-> NullNum]

DescInputs ==
  { (AB_1 :> SomeStr(<<"C","a","p","-","1">>) @@ AB1 :> SomeStr(<<"C","A","P","1">>) @@ B_2 :> NullStr
       @@ C3 :> SomeStr(<<"R","e","s"," ","2">>) @@ ADotB_1 :> SomeStr(<<"C","_","P"," ","5","%">>)),
    (AB_1 :> SomeStr(<<"R","e","s">>) @@ AB1 :> SomeStr(<<"c","a","p"," ","1"," ">>) @@ B_2 :> SomeStr(<<"C","a","p">>)
       @@ C3 :> NullStr @@ ADotB_1 :> NullStr) }

Lot(partNumber, quantity) == [PartNumber |-> partNumber, Quantity |-> quantity]

Tag(partNumber, quantity) == [PartNumber |-> partNumber, InventoryQuantity |-> quantity]

LotInputs ==
  { <<>>,
    <<Lot(AB_1, SomeNum(5)), Lot(AB1, SomeNum(2)), Lot(AB_1, SomeNum(3)), Lot(B_2, NullNum)>>,
    <<Lot(AB_1, SomeNum(1)), Lot(C3, SomeNum(4)), Lot(B_2, NullNum), Lot(B_2, SomeNum(2)),
      Lot(AB1, SomeNum(1))>> }

TagInputs ==
  { <<>>,
    <<Tag(AB_1, SomeNum(2)), Tag(AB_1, NullNum), Tag(AB1, SomeNum(5)), Tag(C3, SomeNum(1))>>,
    <<Tag(AB_1, NullNum), Tag(B_2, SomeNum(1)), Tag(AB_1, SomeNum(1))>> }

BomLine(assembly, component, itemSequence) ==
  [Assembly |-> assembly, Component |-> component, ItemSequence |-> itemSequence]

BomInputs ==
  { <<>>,
    <<BomLine(C3, AB1, SomeStr(<<"1">>)), BomLine(AB_1, B_2, SomeStr(<<"2","0">>)),
      BomLine(AB_1, C3, SomeStr(<<"3">>)), BomLine(AB_1, AB1, SomeStr(<<"3">>))>>,
    <<BomLine(AB_1, C3, SomeStr(<<"2">>)), BomLine(AB_1, AB_1, SomeStr(<<"1","0">>)),
      BomLine(AB_1, AB1, SomeStr(<<"a","b","c">>)), BomLine(AB_1, B_2, SomeStr(<<"1">>))>>,
    <<BomLine(C3, B_2, SomeStr(<<"1">>)), BomLine(C3, AB1, NullStr)>> }

Numerals(n) == {IntToString(k) : k \in 0..n}

FilterRequests ==
  { [NoRequest EXCEPT !.partNumber = pn, !.description = d, !.inStock = s, !.limit = l] :
      pn \in {NullStr, SomeStr(<<" ">>), SomeStr(<<"a","b">>), SomeStr(<<"A","B","-","1"," ">>),
              SomeStr(<<"b","2">>)},
      d \in {NullStr, SomeStr(<<"c","a","p">>), SomeStr(<<"C","a","p","1">>)},
      s \in {NullStr, SomeStr(<<" ","T","R","U","E">>), SomeStr(<<"n","o">>)},
      l \in {NullStr, SomeStr(<<"A","l","l">>), SomeStr(<<"x">>)}
              \cup {SomeStr(t) : t \in Numerals(MaxLimit)} }

TermRequests ==
  { [NoRequest EXCEPT !.search = t] :
      t \in {SomeStr(<<" ">>), SomeStr(<<"a","b">>), SomeStr(<<"c","a","p">>)} }

\* terms with the characters that patterns are made of
PatternRequests ==
  { [NoRequest EXCEPT !.partNumber = SomeStr(pn)] :
      pn \in {<<"*">>, <<"a","*","1">>, <<"a","_","1">>, <<"%">>, <<"A",".","B","1">>, <<"a","b"," ","1">>} }
  \cup { [NoRequest EXCEPT !.description = SomeStr(d)] : d \in {<<"*">>, <<"c","_","p">>, <<"5","%">>} }

Requests == FilterRequests \cup TermRequests \cup PatternRequests

BomRequests ==
  { [NoRequest EXCEPT !.assembly = a, !.bomLimit = l] :
      a \in {NullStr, SomeStr(<<" ","A","B","-","1">>), SomeStr(<<"Z">>)},
      l \in {NullNum} \cup {SomeNum(k) : k \in 0..MaxLimit} }

SearchInit ==
  /\ \E d \in DescInputs :
       partmaster = [n \in Range(TableOrder) |-> CatalogueRow(n, d[n])]
  /\ inventorylots \in LotInputs
  /\ inventorytags \in TagInputs
  /\ bom \in BomInputs
  /\ part_data = <<>>
  /\ committed = [n \in PartNumbers |-> NoEntry.v]
  /\ CallsIdle
  /\ ServerIdle
  /\ SyncIdle
  /\ UiIdle
  /\ RulesIdle

(***************************************************************************)
(* The handlers, one action per request answered                            *)
(***************************************************************************)
\* api/parts.ts: GET /api/parts of the serverless function
ApiPartsHandler ==
  /\ response = NoResponse
  /\ \E q \in Requests, fails \in BOOLEAN :
       filterHandler("api/parts", q, trim(resolveQueryParam(q.partNumber)),
                     trim(resolveQueryParam(q.description)), parseBooleanFlag(q.inStock),
                     resolvePartResultLimit(q.limit), fails)

\* the variant of the serverless function that passes no limit
ApiPartsHandlerNoLimit ==
  /\ response = NoResponse
  /\ \E q \in Requests, fails \in BOOLEAN :
       filterHandler("api/parts, no limit", q, trim(resolveQueryParam(q.partNumber)),
                     trim(resolveQueryParam(q.description)), parseBooleanFlag(q.inStock),
                     NullNum, fails)

\* index.ts: requestHandler routes GET /api/parts to handlePartSearch
HandlePartSearch ==
  /\ response = NoResponse
  /\ \E q \in Requests, fails \in BOOLEAN :
       filterHandler("handlePartSearch", q, trim(resolveQueryParam(q.partNumber)),
                     trim(resolveQueryParam(q.description)), parseBooleanFlag(q.inStock),
                     resolvePartResultLimit(q.limit), fails)

\* the first variant of the serverless function: ?search=term
ApiPartsTermHandler ==
  /\ response = NoResponse
  /\ \E q \in Requests, fails \in BOOLEAN :
       termHandler("api/parts, term", q, resolveQueryParam(q.search), fails)

\* the first variant of index.ts: ?search=term
HandleTermSearch ==
  /\ response = NoResponse
  /\ \E q \in Requests, fails \in BOOLEAN :
       termHandler("handlePartSearch, term", q, resolveQueryParam(q.search), fails)

GetBillOfMaterials ==
  /\ response = NoResponse
  /\ \E q \in BomRequests :
       /\ request' = q
       /\ bomRows' \in getBillOfMaterials(SearchDb, q.bomLimit, q.assembly)
       /\ response' = [status |-> 200, data |-> <<>>, by |-> "getBillOfMaterials"]
  /\ UNCHANGED <<inventorylots, inventorytags, bom, invoked>>
  /\ UNCHANGED <<upsertVars, ruleVars, syncVars, uiVars>>

\* the variants of getBillOfMaterials that order and cut in SQL
GetBillOfMaterialsSql ==
  /\ response = NoResponse
  /\ \E q \in BomRequests :
       /\ request' = q
       /\ bomRows' = getBillOfMaterialsSql(SearchDb, q.bomLimit, q.assembly)
       /\ response' = [status |-> 200, data |-> <<>>, by |-> "getBillOfMaterials, sql"]
  /\ UNCHANGED <<inventorylots, inventorytags, bom, invoked>>
  /\ UNCHANGED <<upsertVars, ruleVars, syncVars, uiVars>>

\* the response has been sent; the server waits for the next request
Listen ==
  /\ response # NoResponse
  /\ request' = NoRequest
  /\ response' = NoResponse
  /\ invoked' = NotInvoked
  /\ bomRows' = <<>>
  /\ UNCHANGED <<inventorylots, inventorytags, bom>>
  /\ UNCHANGED <<upsertVars, ruleVars, syncVars, uiVars>>

NextSearch ==
  \/ ApiPartsHandler
  \/ ApiPartsHandlerNoLimit
  \/ HandlePartSearch
  \/ ApiPartsTermHandler
  \/ HandleTermSearch
  \/ GetBillOfMaterials
  \/ GetBillOfMaterialsSql
  \/ Listen

SpecSearch == SearchInit /\ [][NextSearch]_vars

(***************************************************************************)
(* The PUT /api/parts/:partNumber handler's mapping of a save error         *)
(***************************************************************************)
\* pattern.test(text) for a literal pattern with the i flag
TestIgnoreCase(pattern, text) ==
  \E i \in 1..(Len(text) - Len(pattern) + 1) :
    SubSeq(toLowerCase(text), i, i + Len(pattern) - 1) = pattern

\* /attribute .*missing/i
TestAttributeMissing(text) ==
  \E i \in 1..(Len(text) - 9) :
    /\ SubSeq(toLowerCase(text), i, i + 9) = <<"a","t","t","r","i","b","u","t","e"," ">>
    /\ TestIgnoreCase(<<"m","i","s","s","i","n","g">>, SubSeq(text, i + 10, Len(text)))

mapSaveErrorToStatus(message) ==
  IF TestIgnoreCase(<<"m","i","s","s","i","n","g"," ","r","e","q","u","i","r","e","d">>, message) THEN 400
  ELSE IF TestAttributeMissing(message) THEN 400
  ELSE IF TestIgnoreCase(<<"d","o","e","s"," ","n","o","t"," ","e","x","i","s","t">>, message) THEN 404
  ELSE IF TestIgnoreCase(<<"r","e","q","u","i","r","e","d">>, message) THEN 400
  ELSE 500

(***************************************************************************)
(* The rule engine on its own: one function is called with arguments drawn  *)
(* from the sets below and returns or throws                                *)
(***************************************************************************)
Definition(attributeId, code, dataType, minValue, maxValue, requiredRule) ==
  [attributeId |-> attributeId, code |-> code, dataType |-> dataType,
   minValue |-> minValue, maxValue |-> maxValue, requiredRule |-> requiredRule]

RuleInputs ==
  { NullStr, SomeStr(<<"y","e","s">>), SomeStr(<<" ","Y","E","S"," ">>), SomeStr(<<"n","o">>), SomeStr(<<" ">>),
    SomeStr(<<"r","e","q","u","i","r","e","d"," ","i","f"," ","s","u","b","t","y","p","e"," ","i","n"," ","'","S","M","D","'",",","'","S","M","T","'">>),
    SomeStr(<<"R","e","q","u","i","r","e","d"," ","i","f"," ","S","u","b","t","y","p","e"," ","i","n"," ","(","'"," ","s","m","d"," ","'",")">>),
    SomeStr(<<"i","f"," ","s","u","b","t","y","p","e">>), SomeStr(<<"i","n"," ","'","'"," ","o","r"," ","'"," ","'">>) }

SubtypeInputs == { <<>>, <<" ">>, <<"S","M","T">>, <<" ","s","m","t"," ">>, <<"T","H","T">>, <<"s","m","d">>, <<"S","M">> }

\* definition lists: the two part types of the store, and a list with a second
\* subtype column and several required attributes
DefinitionInputs ==
  { resolveAttributeDefinitions(SomeNum(1)),
    resolveAttributeDefinitions(SomeNum(2)),
    << Definition(7, <<"V","o","l","t","s">>, SomeStr(<<"i","n","t">>), NullNum, NullNum,
                  SomeStr(<<"r","e","q","u","i","r","e","d"," ","i","f"," ","s","u","b","t","y","p","e"," ","i","n"," ","'","S","M","D","'",",","'","S","M","T","'">>)),
       Definition(1, <<"S","u","b","T","y","p","e","_","2">>, NullStr, NullNum, NullNum, NullStr),
       Definition(5, <<"P","i","t","c","h">>, SomeStr(<<"d","o","u","b","l","e">>), NullNum, NullNum, SomeStr(<<"Y","e","s">>)),
       Definition(6, <<"S","u","b","t","y","p","e">>, NullStr, NullNum, NullNum, SomeStr(<<"n","o">>)),
       Definition(2, <<"P","i","n","s">>, SomeStr(<<"i","n","t">>), NullNum, NullNum,
                  SomeStr(<<"r","e","q","u","i","r","e","d"," ","i","f"," ","s","u","b","t","y","p","e"," ","i","n"," ","'","s","m","d","'">>)) >> }

\* attribute lists as normalizeAttributes hands them over
NormalizedInputs ==
  { <<>>,
    <<Attr(1, <<"S","M","D">>)>>,
    <<Attr(1, <<"S","M","D">>), Attr(2, <<"8">>)>>,
    <<Attr(2, <<" ">>), Attr(1, <<" ","s","m","d"," ">>)>>,
    <<Attr(1, <<"T","H","T">>), Attr(3, <<"x">>)>>,
    <<Attr(2, <<"8">>), Attr(5, <<"1",".","5">>)>>,
    <<Attr(4, <<"2">>)>>,
    <<Attr(4, <<>>), Attr(4, <<"2">>)>>,
    <<Attr(6, <<"S","M","D">>), Attr(5, <<" ">>)>>,
    <<Attr(1, <<>>), Attr(6, <<"S","M","D">>), Attr(7, <<"3">>), Attr(5, <<"2">>), Attr(2, <<"4">>)>>,
    <<Attr(6, <<"S","M","T">>), Attr(1, <<"T","H","T">>), Attr(5, <<"2">>)>>,
    <<Attr(1, <<"s","m","t">>), Attr(1, <<"T","H","T">>), Attr(7, <<>>), Attr(7, <<"1">>)>> }

IntDefinitions ==
  { Definition(2, <<"P","i","n","s">>, SomeStr(t), b[1], b[2], NullStr) :
      t \in { <<"i","n","t">>, <<"I","N","T","(","1","1",")">>, <<"I","n","t"," ","u","n","s","i","g","n","e","d">> },
      b \in { <<NullNum, NullNum>>, <<SomeNum(10), SomeNum(640)>>, <<SomeNum(-20), NullNum>> } }

OtherDefinitions ==
  { Definition(1, <<"S","u","b","t","y","p","e">>, SomeStr(<<"e","n","u","m","(","'","S","M","D","'",",","'","T","H","T","'",")">>), NullNum, NullNum, NullStr),
    Definition(3, <<>>, NullStr, NullNum, NullNum, NullStr),
    Definition(4, <<"T","o","l">>, SomeStr(<<"d","o","u","b","l","e">>), SomeNum(0), SomeNum(50), NullStr),
    Definition(8, <<"C","o","u","n","t">>, SomeStr(<<"i","n","t","e","g","e","r">>), NullNum, NullNum, NullStr) }

RawValueInputs ==
  { NullStr, SomeStr(<<>>), SomeStr(<<" ">>), SomeStr(<<"8">>), SomeStr(<<" ","0","8"," ">>), SomeStr(<<"1",".","5">>),
    SomeStr(<<"1","2","a","b","c">>), SomeStr(<<"a","b","c">>), SomeStr(<<"-","3">>), SomeStr(<<"0">>), SomeStr(<<"6","4">>),
    SomeStr(<<"6","5">>), SomeStr(<<"+","7">>), SomeStr(<<"1"," ","2">>), SomeStr(<<"-">>), SomeStr(<<"s","m","d">>) }

(***************************************************************************)
(* computeAssembliesAvailable (the page's script)                           *)
(* A value of an item's field is null, undefined or a number; Number() of   *)
(* it is a number or NaN.  minAssemblies is Infinity or a quotient, kept as *)
(* numerator and denominator.                                               *)
(***************************************************************************)
JsNull == [kind |-> "null", v |-> 0]

JsUndefined == [kind |-> "undefined", v |-> 0]

JsNumber(n) == [kind |-> "number", v |-> n]

NotANumber == [finite |-> FALSE, v |-> 0]

\* Number(value): null is 0, undefined is NaN
Number(value) ==
  IF value.kind = "number" THEN [finite |-> TRUE, v |-> value.v]
  ELSE IF value.kind = "null" THEN [finite |-> TRUE, v |-> 0]
  ELSE NotANumber

Infinity == [finite |-> FALSE, num |-> 0, den |-> 1]

Quotient(num, den) == [finite |-> TRUE, num |-> num, den |-> den]

\* Math.min of two values that are Infinity or a quotient with a positive
\* denominator
MathMinQuotient(a, b) ==
  IF ~a.finite THEN b
  ELSE IF ~b.finite THEN a
  ELSE IF a.num * b.den <= b.num * a.den THEN a ELSE b

\* Number.isFinite(stock) ? Math.max(stock, 0) : 0
availableQuantity(item) ==
  IF Number(item.availableQuantity).finite
    THEN MathMax(Number(item.availableQuantity).v, 0)
    ELSE 0

assembliesStepSkip(minAssemblies, item) ==
  IF ~Number(item.quantityPer).finite \/ Number(item.quantityPer).v <= 0
    THEN minAssemblies
    ELSE MathMinQuotient(minAssemblies,
                         Quotient(availableQuantity(item), Number(item.quantityPer).v))

\* the body of items.forEach: minAssemblies after one item
assembliesStep(minAssemblies, item) ==
  IF ~Number(item.quantityPer).finite \/ Number(item.quantityPer).v <= 0
    THEN Quotient(0, 1)
    ELSE MathMinQuotient(minAssemblies,
                         Quotient(availableQuantity(item), Number(item.quantityPer).v))

RECURSIVE forEachItem(_, _, _)
forEachItem(items, i, minAssemblies) ==
  IF i > Len(items) THEN minAssemblies
  ELSE forEachItem(items, i + 1, assembliesStep(minAssemblies, items[i]))

\* Math.floor(minAssemblies), and 0 when that is negative
flooredAssemblies(minAssemblies) ==
  IF ~minAssemblies.finite THEN 0
  ELSE IF minAssemblies.num \div minAssemblies.den >= 0
    THEN minAssemblies.num \div minAssemblies.den
    ELSE 0

\* items is an array (some) or anything else
computeAssembliesAvailable(items) ==
  IF ~items.some \/ Len(items.v) = 0 THEN 0
  ELSE flooredAssemblies(forEachItem(items.v, 1, Infinity))

\* the body of currentItems.forEach in renderShortages: the shortages after
\* one item; quantities in halves
shortageStep(shortages, items, i, assembliesNeeded) ==
  IF ~Number(items[i].quantityPer).finite \/ Number(items[i].quantityPer).v <= 0
    THEN shortages
  ELSE IF MathMax(0, Number(items[i].quantityPer).v * assembliesNeeded
                       - availableQuantity(items[i])) <= 0
    THEN shortages
  ELSE Append(shortages,
         [component |-> i,
          quantity |-> MathMax(0, Number(items[i].quantityPer).v * assembliesNeeded
                                    - availableQuantity(items[i]))])

RECURSIVE forEachShortage(_, _, _, _)
forEachShortage(items, i, assembliesNeeded, shortages) ==
  IF i > Len(items) THEN shortages
  ELSE forEachShortage(items, i + 1, assembliesNeeded,
                       shortageStep(shortages, items, i, assembliesNeeded))

\* what the shortage table shows: a message, or a row for each shortage
renderShortages(currentItems, assembliesNeeded) ==
  IF ~currentItems.some \/ Len(currentItems.v) = 0
    THEN [message |-> "No bill of materials loaded.", shortages |-> <<>>]
  ELSE IF forEachShortage(currentItems.v, 1, assembliesNeeded, <<>>) = <<>>
    THEN [message |-> "All components are sufficiently stocked.", shortages |-> <<>>]
  ELSE [message |-> "",
        shortages |-> forEachShortage(currentItems.v, 1, assembliesNeeded, <<>>)]

MaxLines == 3

\* Math.floor(Number(quantityInput.value)), which the form refuses below 1
AssembliesNeededInputs == 1..4

\* the quantities are in halves: 3 is 1.5
QuantityPerInputs == { JsNull, JsUndefined, JsNumber(-2), JsNumber(0), JsNumber(2), JsNumber(3) }

AvailableInputs == { JsUndefined, JsNumber(-2), JsNumber(3), JsNumber(7) }

ItemInputs ==
  { [quantityPer |-> q, availableQuantity |-> a] : q \in QuantityPerInputs, a \in AvailableInputs }

ItemListInputs ==
  { [some |-> FALSE, v |-> <<>>] }
    \cup { [some |-> TRUE, v |-> items] :
             items \in UNION { [1..n -> ItemInputs] : n \in 0..MaxLines } }

RuleCalls ==
  { [fn |-> "evaluateRequirement", rule |-> r, subtypeValue |-> s] :
      r \in RuleInputs, s \in SubtypeInputs }
  \cup { [fn |-> "resolveRequirementState", requiredRule |-> r, subtype |-> s] :
           r \in RuleInputs, s \in {NullStr} \cup { SomeStr(v) : v \in SubtypeInputs } }
  \cup { [fn |-> "computeAssembliesAvailable", items |-> items] : items \in ItemListInputs }
  \cup { [fn |-> "renderShortages", items |-> items, assembliesNeeded |-> n] :
           items \in ItemListInputs, n \in AssembliesNeededInputs }
  \cup { [fn |-> "assertRequiredAttributes", attributes |-> a, definitions |-> d] :
           a \in NormalizedInputs, d \in DefinitionInputs }
  \cup { [fn |-> "validateAttributeValue", definition |-> d, rawValue |-> v] :
           d \in IntDefinitions \cup OtherDefinitions, v \in RawValueInputs }

RulesInit ==
  /\ ruleCall \in RuleCalls
  /\ ruleResult = NoReturn
  /\ partmaster = [n \in PartNumbers |-> NoRow]
  /\ part_data = <<>>
  /\ committed = [n \in PartNumbers |-> NoEntry.v]
  /\ CallsIdle
  /\ ServerIdle
  /\ SyncIdle
  /\ UiIdle
  /\ inventorylots = <<>>
  /\ inventorytags = <<>>
  /\ bom = <<>>

RuleReturns(outcome) ==
  /\ ruleResult = NoReturn
  /\ ruleResult' = [done |-> TRUE, ok |-> outcome.ok, value |-> outcome.value,
                    error |-> outcome.error]
  /\ UNCHANGED <<ruleCall, upsertVars, searchVars, syncVars, uiVars>>

EvaluateRequirement ==
  /\ ruleCall.fn = "evaluateRequirement"
  /\ RuleReturns(Ok(evaluateRequirement(ruleCall.rule, ruleCall.subtypeValue)))

AssertRequiredAttributes ==
  /\ ruleCall.fn = "assertRequiredAttributes"
  /\ RuleReturns(assertRequiredAttributes(ruleCall.attributes, ruleCall.definitions))

ValidateAttributeValue ==
  /\ ruleCall.fn = "validateAttributeValue"
  /\ RuleReturns(validateAttributeValue(ruleCall.definition, ruleCall.rawValue))

ComputeAssembliesAvailable ==
  /\ ruleCall.fn = "computeAssembliesAvailable"
  /\ RuleReturns(Ok(computeAssembliesAvailable(ruleCall.items)))

\* the calculator form is submitted with the BOM of ruleCall.items loaded
RenderShortages ==
  /\ ruleCall.fn = "renderShortages"
  /\ RuleReturns(Ok(renderShortages(ruleCall.items, ruleCall.assembliesNeeded)))

\* the editor works out the state of a field
ResolveRequirementState ==
  /\ ruleCall.fn = "resolveRequirementState"
  /\ RuleReturns(Ok(resolveRequirementState(ruleCall.requiredRule, ruleCall.subtype)))

NextRules ==
  \/ EvaluateRequirement
  \/ ResolveRequirementState
  \/ ComputeAssembliesAvailable
  \/ RenderShortages
  \/ AssertRequiredAttributes
  \/ ValidateAttributeValue

SpecRules == RulesInit /\ [][NextRules]_vars

(***************************************************************************)
(* The Prisma sync endpoint: POST requests on one server process            *)
(* Three handlers serve it: api/prisma/sync.ts (introspection, then client  *)
(* generation), index.ts (the same on a temporary copy of the schema) and   *)
(* the earlier serverless function (introspection on a temporary copy).     *)
(***************************************************************************)
SyncVariants == {"api/prisma/sync.ts", "index.ts", "part_001"}

\* performPrismaSync: the steps, in order
PrismaSteps(variant) ==
  IF variant = "part_001" THEN <<"schema introspection">>
  ELSE <<"schema introspection", "client generation">>

\* the handler calls prepareTemporarySchema and reads the schema back
usesTemporarySchema(variant) == variant # "api/prisma/sync.ts"

\* exit codes of a child; -1 is null (ended by a signal)
ExitCodes == {0, 1, -1}

Command(step, state, code) == [step |-> step, state |-> state, code |-> code]

\* a check that rejects nothing
rejectsNever(inProgress) == FALSE

\* if (prismaSyncInProgress): 409
rejectsSync(inProgress) == inProgress

\* a flag that is cleared on success only
lockAfterSuccess(status) == status # 200

\* finally { prismaSyncInProgress = false }: the flag after the answer
lockAfterAnswer(status) == FALSE

Arrived == Cardinality({r \in SyncRequests : sync[r].pc # "none"})

SyncInit ==
  /\ prismaSyncInProgress = FALSE
  /\ syncEnv \in [variant : SyncVariants, databaseUrl : BOOLEAN]
  /\ sync = [r \in SyncRequests |-> NoSync]
  /\ UiIdle
  /\ partmaster = [n \in PartNumbers |-> NoRow]
  /\ part_data = <<>>
  /\ committed = [n \in PartNumbers |-> NoEntry.v]
  /\ CallsIdle
  /\ request = NoRequest
  /\ response = NoResponse
  /\ invoked = NotInvoked
  /\ bomRows = <<>>
  /\ RulesIdle
  /\ inventorylots = <<>>
  /\ inventorytags = <<>>
  /\ bom = <<>>

SyncUnchanged == UNCHANGED <<syncEnv, upsertVars, searchVars, ruleVars, uiVars>>

\* the handler answers: try ends or catch runs, then finally
SyncAnswers(r, status, commands) ==
  /\ sync' = [sync EXCEPT ![r] = [@ EXCEPT !.pc = "answered", !.status = status,
                                             !.commands = commands]]
  /\ prismaSyncInProgress' = lockAfterAnswer(status)

\* POST arrives: DATABASE_URL, then the flag, are checked and the flag is set
\* before the first await
SyncPost(r) ==
  /\ sync[r].pc = "none"
  /\ sync' = [sync EXCEPT ![r] =
       [@ EXCEPT !.sawInProgress = prismaSyncInProgress,
                 !.order = Arrived + 1,
                 !.pc = IF ~syncEnv.databaseUrl \/ rejectsSync(prismaSyncInProgress)
                          THEN "answered"
                        ELSE IF usesTemporarySchema(syncEnv.variant) THEN "copy"
                        ELSE "mkdir",
                 !.step = IF ~syncEnv.databaseUrl \/ rejectsSync(prismaSyncInProgress)
                            THEN 0 ELSE 1,
                 !.status = IF ~syncEnv.databaseUrl THEN 500
                            ELSE IF rejectsSync(prismaSyncInProgress) THEN 409
                            ELSE 0]]
  /\ prismaSyncInProgress' =
       IF ~syncEnv.databaseUrl \/ rejectsSync(prismaSyncInProgress)
         THEN prismaSyncInProgress ELSE TRUE
  /\ SyncUnchanged

\* prepareTemporarySchema: mkdir and copyFile end, well or not
PrepareTemporarySchema(r) ==
  /\ sync[r].pc = "copy"
  /\ \E copied \in BOOLEAN :
       IF copied
         THEN /\ sync' = [sync EXCEPT ![r].pc = "mkdir"]
              /\ UNCHANGED prismaSyncInProgress
         ELSE SyncAnswers(r, 500, sync[r].commands)
  /\ SyncUnchanged

\* runPrismaCommand: the directories are made (failures ignored) and the
\* child is spawned
SpawnPrisma(r) ==
  /\ sync[r].pc = "mkdir"
  /\ sync' = [sync EXCEPT ![r] =
       [@ EXCEPT !.pc = "child",
                 !.commands = Append(@, Command(PrismaSteps(syncEnv.variant)[sync[r].step],
                                                "running", 0))]]
  /\ UNCHANGED prismaSyncInProgress
  /\ SyncUnchanged

\* the commands of the request with the last one ended
Ended(commands, state, code) ==
  [commands EXCEPT ![Len(commands)] = Command(@.step, state, code)]

\* child.on('error'): the command could not be started
ChildError(r) ==
  /\ sync[r].pc = "child"
  /\ SyncAnswers(r, 500, Ended(sync[r].commands, "error", 0))
  /\ SyncUnchanged

\* child.on('exit'): code 0 resolves, and the next step or the answer
\* follows; any other code rejects
ChildExit(r) ==
  /\ sync[r].pc = "child"
  /\ \E code \in ExitCodes :
       IF code # 0 THEN SyncAnswers(r, 500, Ended(sync[r].commands, "exited", code))
       ELSE IF sync[r].step < Len(PrismaSteps(syncEnv.variant))
         THEN /\ sync' = [sync EXCEPT ![r] =
                   [@ EXCEPT !.pc = "mkdir", !.step = @ + 1,
                             !.commands = Ended(@, "exited", 0)]]
              /\ UNCHANGED prismaSyncInProgress
       ELSE IF usesTemporarySchema(syncEnv.variant)
         THEN /\ sync' = [sync EXCEPT ![r] =
                   [@ EXCEPT !.pc = "read", !.commands = Ended(@, "exited", 0)]]
              /\ UNCHANGED prismaSyncInProgress
       ELSE SyncAnswers(r, 200, Ended(sync[r].commands, "exited", 0))
  /\ SyncUnchanged

\* readFile(schemaPath).catch(() => null) ends and the answer is sent
ReadSchema(r) ==
  /\ sync[r].pc = "read"
  /\ SyncAnswers(r, 200, sync[r].commands)
  /\ SyncUnchanged

\* what ends by itself once begun: file operations and the exit of a child
SyncProgress(r) ==
  \/ PrepareTemporarySchema(r)
  \/ SpawnPrisma(r)
  \/ ChildExit(r)
  \/ ReadSchema(r)

NextSync ==
  \E r \in SyncRequests :
    \/ SyncPost(r)
    \/ PrepareTemporarySchema(r)
    \/ SpawnPrisma(r)
    \/ ChildError(r)
    \/ ChildExit(r)
    \/ ReadSchema(r)

SpecSync == SyncInit /\ [][NextSync]_vars

\* the same with every begun file operation and child ending
SpecSyncLive ==
  SyncInit /\ [][NextSync]_vars /\ \A r \in SyncRequests : WF_vars(SyncProgress(r))

(***************************************************************************)
(* The inventory search of the page: initInventorySearch                   *)
(***************************************************************************)
\* searchInput.value.trim() and descriptionInput.value.trim()
PartQueryInputs == {"", "AB"}

DescriptionQueryInputs == {"", "cap"}

\* the locations /api/locations can answer with: none or some
LocationInputs == {0, 2}

\* payload.data of the response to search s: no part, or parts of that search
ReturnedParts(s) == {<<>>, <<[search |-> s, row |-> 1], [search |-> s, row |-> 2]>>}

\* !partQuery && !descriptionQuery && !inStockOnly
noFilterActive(f) == f.partQuery = "" /\ f.descriptionQuery = "" /\ ~f.inStockOnly

\* activeController.abort(): the pending fetch of that search rejects with an
\* AbortError, which the catch swallows; a search past its fetch is not affected
abort(running, s) ==
  IF s \in Searches /\ running[s].pc = "fetching"
    THEN [running EXCEPT ![s] = [@ EXCEPT !.pc = "aborted"]]
    ELSE running

\* what performSearch does after the locations: the message for no part, or
\* lastParts = parts; showPage(0)
showParts(page, s) ==
  IF page.searches[s].parts = <<>>
    THEN [searches |-> [page.searches EXCEPT ![s] = [@ EXCEPT !.pc = "empty"]],
          resultsBody |-> Message("No parts matched your filters."),
          lastParts |-> <<>>]
    ELSE [searches |-> [page.searches EXCEPT ![s] = [@ EXCEPT !.pc = "rendered"]],
          resultsBody |-> [message |-> "", rows |-> page.searches[s].parts],
          lastParts |-> page.searches[s].parts]

\* the searches awaiting the same locationsPromise continue in the order they
\* began to wait
RECURSIVE resumeWaiting(_, _)
resumeWaiting(page, waiting) ==
  IF waiting = <<>> THEN page
  ELSE resumeWaiting(showParts(page, Head(waiting)), Tail(waiting))

\* loadLocationsReference returns the cache without a request
cacheServes(cache) == cache.locationsLoaded /\ cache.locations > 0

UiInit ==
  /\ UiIdle
  /\ SyncIdle
  /\ partmaster = [n \in PartNumbers |-> NoRow]
  /\ part_data = <<>>
  /\ committed = [n \in PartNumbers |-> NoEntry.v]
  /\ CallsIdle
  /\ request = NoRequest
  /\ response = NoResponse
  /\ invoked = NotInvoked
  /\ bomRows = <<>>
  /\ RulesIdle
  /\ inventorylots = <<>>
  /\ inventorytags = <<>>
  /\ bom = <<>>

UiUnchanged == UNCHANGED <<upsertVars, searchVars, ruleVars, syncVars>>

\* performSearch up to its first await, with the form holding f
performSearch(f) ==
  LET s == triggered + 1 IN
  /\ triggered < MaxSearches
  /\ triggered' = s
  /\ lastParts' = <<>>
  /\ IF noFilterActive(f)
       THEN /\ resultsBody' =
                 Message("Enter a part number, description, or enable In Stock to search.")
            /\ searches' = [searches EXCEPT ![s] =
                 [pc |-> "refused", query |-> f, parts |-> <<>>]]
            /\ UNCHANGED activeController
       ELSE /\ resultsBody' = Message("Searching...")
            /\ searches' = [abort(searches, activeController) EXCEPT ![s] =
                 [pc |-> "fetching", query |-> f, parts |-> <<>>]]
            /\ activeController' = s

\* 'input' on the part number or the description field: queueSearch
Input ==
  /\ \E f \in [partQuery : PartQueryInputs, descriptionQuery : DescriptionQueryInputs,
               inStockOnly : {filters.inStockOnly}] :
       /\ f # filters
       /\ f.partQuery = filters.partQuery \/ f.descriptionQuery = filters.descriptionQuery
       /\ filters' = f
  /\ debounceTimer' = TRUE
  /\ UNCHANGED <<activeController, searches, triggered, referenceCache, resultsBody,
                 lastParts>>
  /\ UiUnchanged

\* the timeout of queueSearch expires
DebounceExpires ==
  /\ debounceTimer
  /\ debounceTimer' = FALSE
  /\ performSearch(filters)
  /\ UNCHANGED <<filters, referenceCache>>
  /\ UiUnchanged

\* 'change' on the In Stock checkbox
InStockChange ==
  /\ filters' = [filters EXCEPT !.inStockOnly = ~@]
  /\ debounceTimer' = FALSE
  /\ performSearch(filters')
  /\ UNCHANGED referenceCache
  /\ UiUnchanged

\* 'change' on the limit checkbox, or 'inventory:part-changed'
SearchAgain ==
  /\ debounceTimer' = FALSE
  /\ performSearch(filters)
  /\ UNCHANGED <<filters, referenceCache>>
  /\ UiUnchanged

\* fetch fails, or answers with a status that is not ok
FetchFails(s) ==
  /\ searches[s].pc = "fetching"
  /\ searches' = [searches EXCEPT ![s] = [@ EXCEPT !.pc = "failed"]]
  /\ resultsBody' = Message("Unable to retrieve parts. Please try again.")
  /\ lastParts' = <<>>
  /\ UNCHANGED <<filters, debounceTimer, activeController, triggered, referenceCache>>
  /\ UiUnchanged

\* fetch and response.json() answer; performSearch goes on to
\* loadLocationsReference, which returns the cache, joins the pending request
\* or sends one
FetchAnswers(s) ==
  /\ searches[s].pc = "fetching"
  /\ \E parts \in ReturnedParts(s) :
       LET got == [searches EXCEPT ![s] = [@ EXCEPT !.pc = "locations", !.parts = parts]]
           page == [searches |-> got, resultsBody |-> resultsBody, lastParts |-> lastParts]
       IN IF cacheServes(referenceCache)
            THEN /\ searches' = showParts(page, s).searches
                 /\ resultsBody' = showParts(page, s).resultsBody
                 /\ lastParts' = showParts(page, s).lastParts
                 /\ UNCHANGED referenceCache
            ELSE /\ searches' = got
                 /\ referenceCache' =
                      [referenceCache EXCEPT !.locationsPromise = TRUE,
                                             !.waiting = Append(@, s)]
                 /\ UNCHANGED <<resultsBody, lastParts>>
  /\ UNCHANGED <<filters, debounceTimer, activeController, triggered>>
  /\ UiUnchanged

\* the page after the locations request ended
Resumed ==
  resumeWaiting([searches |-> searches, resultsBody |-> resultsBody,
                 lastParts |-> lastParts], referenceCache.waiting)

LocationsEnd(cache) ==
  /\ referenceCache.locationsPromise
  /\ referenceCache' = cache
  /\ searches' = Resumed.searches
  /\ resultsBody' = Resumed.resultsBody
  /\ lastParts' = Resumed.lastParts
  /\ UNCHANGED <<filters, debounceTimer, activeController, triggered>>
  /\ UiUnchanged

\* /api/locations answers: the cache is filled, the promise cleared
LocationsAnswer ==
  \E n \in LocationInputs :
    LocationsEnd([locations |-> n, locationsLoaded |-> TRUE, locationsPromise |-> FALSE,
                  waiting |-> <<>>])

\* /api/locations fails: the cache is emptied, the promise cleared, and the
\* searches go on with the parts as they came
LocationsFail == LocationsEnd(EmptyCache)

NextUi ==
  \/ Input
  \/ DebounceExpires
  \/ InStockChange
  \/ SearchAgain
  \/ \E s \in Searches : FetchFails(s)
  \/ \E s \in Searches : FetchAnswers(s)
  \/ LocationsAnswer
  \/ LocationsFail

SpecUi == UiInit /\ [][NextUi]_vars

(***************************************************************************)
(* Claims C1 to C6: upsertPart                                             *)
(***************************************************************************)
\* C1: the scalar fields, the part type and the attribute set of a part change
\* together: in every reachable state, a store failure inside the transaction
\* included, what the store holds for each part is the initial content or the
\* complete content of one committed call, never new fields with an old
\* attribute set, nor a new or emptied attribute set with old fields.
C1_UpsertAtomic ==
  \A n \in PartNumbers : StoreEntry(Db, n) = committed[n]

\* a call failed in the store after its transaction had issued the write of the
\* part and the deleteMany, and the part is as committed
C1_Witness ==
  \E c \in Calls :
    /\ pc[c] = "failed"
    /\ result[c].error = PrismaError
    /\ existingPart[c].found
    /\ effectivePartTypeId[c] # 0
    /\ committed[P1].attrs # <<>>
    /\ StoreEntry(Db, P1) = committed[P1]
    /\ committed[P1] # Intended(payload[c], effectivePartTypeId[c], normalizedAttributes[c])

\* the (attribute id, value) pairs of a list, counted
PairCount(list, id, value) ==
  Cardinality({i \in DOMAIN list : list[i].attributeId = id /\ list[i].value = value})

SamePairs(a, b) ==
  /\ Len(a) = Len(b)
  /\ \A i \in DOMAIN a :
       PairCount(a, a[i].attributeId, a[i].value) = PairCount(b, a[i].attributeId, a[i].value)

\* C2: after a successful upsertPart with no concurrent writer, the returned
\* detail and a getPartDetail that follows list exactly the submitted
\* attributes that are defined for the effective part type, each with its
\* validated value, and nothing of an earlier attribute set.
C2_RoundTrip ==
  pc[1] = "done" =>
    /\ result[1].ok /\ result[1].detail.found
    /\ SamePairs(result[1].detail.attributes, normalizedAttributes[1])
    /\ SamePairs(getPartDetail(Db, payload[1].partNumber).attributes, normalizedAttributes[1])

\* a successful call on a part that had attributes of another set, with an
\* undefined id dropped and a value rewritten by validation
C2_Witness ==
  /\ pc[1] = "done"
  /\ existingPart[1].found
  /\ Len(normalizedAttributes[1]) = 2
  /\ Len(payload[1].attributes.v) = 3
  /\ normalizedAttributes[1][2].value = <<"8">>
  /\ result[1].detail.attributes[2].value = <<"8">>

\* the validation of a call, restated from its parts: the call is invalid when
\* the part number is empty, no part type resolves, a value is rejected, a
\* required attribute is missing, or the part is absent and may not be created
InvalidCall(c) ==
  \/ PartNumberOf(c) = <<>>
  \/ ~resolveEffectivePartTypeId(payload[c], existingPart[c]).some
  \/ resolveEffectivePartTypeId(payload[c], existingPart[c]).v = 0
  \/ ~normalizeAttributes(payload[c].attributes,
        resolveAttributeDefinitions(resolveEffectivePartTypeId(payload[c], existingPart[c]))).ok
  \/ missingRequired(
        normalizeAttributes(payload[c].attributes,
          resolveAttributeDefinitions(resolveEffectivePartTypeId(payload[c], existingPart[c]))).value,
        resolveAttributeDefinitions(resolveEffectivePartTypeId(payload[c], existingPart[c]))) # <<>>
  \/ (~existingPart[c].found /\ ~allowCreate[c])

\* C3: a call that fails validation fails before any write: it issues no
\* statement and the store is not changed by it.
C3_ValidationBeforeWrite ==
  \A c \in Calls :
    (pc[c] \notin {"idle", "find"} /\ InvalidCall(c)) =>
      /\ pc[c] = "failed"
      /\ tx[c] = <<>>
      /\ ~wrote[c]

\* a call on an absent part that may not be created failed with the NotFound
\* message and wrote nothing
C3_Witness ==
  /\ pc[1] = "failed"
  /\ result[1].error = MsgPartDoesNotExist
  /\ ~partmaster[P1].exists
  /\ ~wrote[1]

\* C4 as stated: every call with allowCreate = false on a part number that is
\* not in the store fails with 'Part does not exist.', which the PUT handler
\* maps to 404, and creates no row.
C4_NotFoundWhenAbsent ==
  (/\ pc[1] = "failed"
   /\ ~allowCreate[1]
   /\ PartNumberOf(1) # <<>>
   /\ ~partmaster[P1].exists
   /\ result[1].error # PrismaError)
  => /\ result[1].error = MsgPartDoesNotExist
     /\ mapSaveErrorToStatus(result[1].error) = 404

\* C5: when two calls for the same part overlap and both succeed, the part is
\* left as one of the two calls alone writes it: fields, part type and
\* attribute set are all of the same call.
C5_LastWriterWins ==
  (pc[1] = "done" /\ pc[2] = "done") =>
    \E c \in Calls :
      StoreEntry(Db, P1) = Intended(payload[c], effectivePartTypeId[c], normalizedAttributes[c])

\* two overlapping calls with different part types and attribute sets both
\* succeeded
C5_Witness ==
  /\ pc[1] = "done" /\ pc[2] = "done"
  /\ overlap
  /\ effectivePartTypeId[1] # effectivePartTypeId[2]
  /\ normalizedAttributes[1] # normalizedAttributes[2]
  /\ normalizedAttributes[1] # <<>>
  /\ normalizedAttributes[2] # <<>>

\* C6: the same valid payload run again right after a successful run succeeds
\* (unless the store fails) and leaves the part as the first run left it.
C6_Idempotent ==
  repeatOf[1].some =>
    /\ pc[1] = "done" => StoreEntry(Db, PartNumberOf(1)) = repeatOf[1].v
    /\ pc[1] = "failed" => result[1].error = PrismaError

\* a repeated run that succeeded on a part with attributes, the first run
\* having created the part
C6_Witness ==
  /\ repeatOf[1].some
  /\ pc[1] = "done"
  /\ repeatOf[1].v.attrs # <<>>
  /\ allowCreate[1]

(***************************************************************************)
(* Claims C7 to C10: availability and the part search                      *)
(***************************************************************************)
\* the sum of the second components of a set of pairs
RECURSIVE Total(_)
Total(pairs) ==
  IF pairs = {} THEN 0
  ELSE LET x == CHOOSE x \in pairs : TRUE IN x[2] + Total(pairs \ {x})

\* the sum of the lot quantities of a part
LotTotal(partNumber) ==
  Total({<<i, inventorylots[i].Quantity.v>> :
           i \in {j \in DOMAIN inventorylots :
                    inventorylots[j].PartNumber = partNumber /\ inventorylots[j].Quantity.some}})

\* the sum of the non-null tag quantities of a part
TagTotal(partNumber) ==
  Total({<<i, inventorytags[i].InventoryQuantity.v>> :
           i \in {j \in DOMAIN inventorytags :
                    /\ inventorytags[j].PartNumber = partNumber
                    /\ inventorytags[j].InventoryQuantity.some}})

Clamped(n) == IF n > 0 THEN n ELSE 0

ExpectedAvailable(partNumber) == Clamped(LotTotal(partNumber) - TagTotal(partNumber))

\* a filter handler has answered 200 with the rows of searchParts
FilterSearchAnswered ==
  response.status = 200 /\ invoked.called /\ invoked.options.term = <<>>

\* C7: the availableQuantity that searchParts and getBillOfMaterials report for
\* a part is max(sum of its lot quantities - sum of its non-null tag
\* quantities, 0), whatever the lots and tags are, and is never negative.
C7_AvailableQuantity ==
  /\ FilterSearchAnswered =>
       \A i \in DOMAIN response.data :
         /\ response.data[i].availableQuantity = ExpectedAvailable(response.data[i].partNumber)
         /\ response.data[i].availableQuantity >= 0
  /\ \A i \in DOMAIN bomRows :
       /\ bomRows[i].availableQuantity = ExpectedAvailable(bomRows[i].component)
       /\ bomRows[i].availableQuantity >= 0

\* a search reported 0 for a part with more allocated than on hand, a
\* positive quantity for a part that has a lot of null quantity
C7_Witness ==
  /\ FilterSearchAnswered
  /\ \E i \in DOMAIN response.data :
       /\ TagTotal(response.data[i].partNumber) > LotTotal(response.data[i].partNumber)
       /\ LotTotal(response.data[i].partNumber) > 0
       /\ response.data[i].availableQuantity = 0
  /\ \E i \in DOMAIN response.data :
       /\ response.data[i].availableQuantity = 2
       /\ \E j \in DOMAIN inventorylots :
            /\ inventorylots[j].PartNumber = response.data[i].partNumber
            /\ ~inventorylots[j].Quantity.some

\* the request names no filter the handler reads
NoActiveFilter ==
  IF response.by \in {"api/parts, term", "handlePartSearch, term"}
    THEN trim(resolveQueryParam(request.search)) = <<>>
    ELSE /\ trim(resolveQueryParam(request.partNumber)) = <<>>
         /\ trim(resolveQueryParam(request.description)) = <<>>
         /\ ~parseBooleanFlag(request.inStock)

\* C8: every part-search handler answers 400 to a request without an active
\* filter and does not call searchParts for it; searchParts is only called
\* with at least one active filter.
C8_EmptySearchRejected ==
  /\ (/\ response.status # 0
      /\ response.by \notin {"getBillOfMaterials", "getBillOfMaterials, sql"}
      /\ NoActiveFilter) =>
       (response.status = 400 /\ ~invoked.called)
  /\ invoked.called =>
       \/ trim(invoked.options.partNumber) # <<>>
       \/ trim(invoked.options.description) # <<>>
       \/ invoked.options.inStockOnly
       \/ trim(invoked.options.term) # <<>>

\* a request with a blank part number, no description, inStock=no and a limit
\* was rejected by handlePartSearch
C8_Witness ==
  /\ response.by = "handlePartSearch"
  /\ response.status = 400
  /\ request.partNumber = SomeStr(<<" ">>)
  /\ request.inStock = SomeStr(<<"n","o">>)
  /\ request.limit = SomeStr(<<"1">>)
  /\ ~invoked.called

\* a stored part satisfies every active filter of the options
MatchesAll(options, partNumber) ==
  /\ trim(options.partNumber) # <<>> =>
       partNumberGroup(toLowerCase(CollapseWhitespace(trim(options.partNumber))),
                       [PartNumber |-> partNumber])
  /\ trim(options.description) # <<>> =>
       descriptionGroup(toLowerCase(CollapseWhitespace(trim(options.description))),
                        [DescText |-> partmaster[partNumber].DescText])
  /\ options.inStockOnly => ExpectedAvailable(partNumber) > 0

Matches(options) == {n \in DOMAIN partmaster : partmaster[n].exists /\ MatchesAll(options, n)}

Returned == {response.data[i].partNumber : i \in DOMAIN response.data}

\* C9: searchParts returns only parts that satisfy all active filters together
\* and, when no limit applies, every such part.
C9_FiltersConjoined ==
  FilterSearchAnswered =>
    /\ Returned \subseteq Matches(invoked.options)
    /\ ~invoked.options.limit.some => Matches(invoked.options) \subseteq Returned

\* a search with the three filters active returned a part and left out a part
\* that matches the part number filter but is not in stock
C9_Witness ==
  /\ FilterSearchAnswered
  /\ trim(invoked.options.partNumber) # <<>>
  /\ trim(invoked.options.description) # <<>>
  /\ invoked.options.inStockOnly
  /\ Returned # {}
  /\ \E n \in DOMAIN partmaster :
       /\ n \notin Returned
       /\ MatchesAll([invoked.options EXCEPT !.inStockOnly = FALSE], n)

Ascending(rows) ==
  \A i, j \in DOMAIN rows :
    i < j => CollatesBefore(rows[i].partNumber, rows[j].partNumber)

FirstOf(matches, returned, limit) ==
  /\ returned \subseteq matches
  /\ Cardinality(returned) =
       IF limit.some /\ limit.v < Cardinality(matches) THEN limit.v ELSE Cardinality(matches)
  /\ \A n \in matches \ returned : \A r \in returned : CollatesBefore(r, n)

\* C10: the rows of searchParts are in ascending part number order; with a
\* positive limit L they are the first min(L, matches) rows of that order, and
\* without a limit they are all the matching rows.
C10_SortedAndLimited ==
  FilterSearchAnswered =>
    /\ Ascending(response.data)
    /\ Len(response.data) = Cardinality(Returned)
    /\ FirstOf(Matches(invoked.options), Returned, invoked.options.limit)

\* a search limited to one row returned AB-1 and left out AB1, which matches
\* too and comes first in the table
C10_Witness ==
  /\ FilterSearchAnswered
  /\ invoked.options.limit = SomeNum(1)
  /\ Len(response.data) = 1
  /\ response.data[1].partNumber = AB_1
  /\ AB1 \in Matches(invoked.options)

(***************************************************************************)
(* Claims C11 to C14: the attribute rule engine                             *)
(***************************************************************************)
\* evaluateRequirement has returned
Evaluated == ruleResult.done /\ ruleCall.fn = "evaluateRequirement"

\* the single-quoted literals of a rule, as written
LiteralsOf(rule) == IF rule.some THEN Range(QuotedLiterals(rule.v)) ELSE {}

\* the trimmed subtype value equals a literal of the rule, letter case apart
EqualsLiteral(rule, subtypeValue) ==
  \E literal \in LiteralsOf(rule) : toLowerCase(trim(literal)) = toLowerCase(trim(subtypeValue))

\* the rule reads yes (no), surrounding blanks and letter case apart
RuleReads(rule, word) == rule.some /\ toLowerCase(trim(rule.v)) = word

\* C11: for a required-rule that contains at least one single-quoted literal
\* and a subtype value that is not blank, evaluateRequirement returns
\* required = visible = TRUE when the trimmed subtype value equals one of the
\* literals, letter case apart, and required = visible = FALSE otherwise.
C11_ConditionalRequirement ==
  (/\ Evaluated
   /\ LiteralsOf(ruleCall.rule) # {}
   /\ trim(ruleCall.subtypeValue) # <<>>)
  => /\ ruleResult.value.required = EqualsLiteral(ruleCall.rule, ruleCall.subtypeValue)
     /\ ruleResult.value.visible = EqualsLiteral(ruleCall.rule, ruleCall.subtypeValue)

\* the rule of the example with subtype ' smt ': required and visible
C11_Witness ==
  /\ Evaluated
  /\ ruleCall.rule = SomeStr(<<"r","e","q","u","i","r","e","d"," ","i","f"," ","s","u","b","t","y","p","e"," ","i","n"," ","'","S","M","D","'",",","'","S","M","T","'">>)
  /\ ruleCall.subtypeValue = <<" ","s","m","t"," ">>
  /\ ruleResult.value = [required |-> TRUE, visible |-> TRUE]

\* C12: evaluateRequirement returns required and visible for the rule yes
\* whatever the subtype value is, and not required but visible whenever the
\* subtype value is empty and the rule is anything else (absent, no, or a
\* conditional rule).
C12_UnconditionalAndNoSubtype ==
  Evaluated =>
    /\ RuleReads(ruleCall.rule, <<"y","e","s">>)
         => ruleResult.value = [required |-> TRUE, visible |-> TRUE]
    /\ (trim(ruleCall.subtypeValue) = <<>> /\ ~RuleReads(ruleCall.rule, <<"y","e","s">>))
         => ruleResult.value = [required |-> FALSE, visible |-> TRUE]

\* a conditional rule evaluated without a subtype value
C12_Witness ==
  /\ Evaluated
  /\ ruleCall.rule = SomeStr(<<"r","e","q","u","i","r","e","d"," ","i","f"," ","s","u","b","t","y","p","e"," ","i","n"," ","'","S","M","D","'",",","'","S","M","T","'">>)
  /\ ruleCall.subtypeValue = <<>>
  /\ ruleResult.value = [required |-> FALSE, visible |-> TRUE]

\* assertRequiredAttributes has returned or thrown
Asserted == ruleResult.done /\ ruleCall.fn = "assertRequiredAttributes"

\* the positions of the submitted entries of an attribute, and the entry that
\* stands for the attribute when it is submitted more than once: the first
EntriesOf(attributes, attributeId) ==
  {i \in DOMAIN attributes : attributes[i].attributeId = attributeId}

EntryOf(attributes, attributeId) ==
  CHOOSE i \in EntriesOf(attributes, attributeId) :
    \A j \in EntriesOf(attributes, attributeId) : i <= j

\* the submitted definitions whose code normalizes to subtype
SubmittedSubtypes(attributes, definitions) ==
  {k \in DOMAIN definitions :
     /\ normalizeAttributeCode(definitions[k].code) = <<"s","u","b","t","y","p","e">>
     /\ EntriesOf(attributes, definitions[k].attributeId) # {}}

SubtypeAt(attributes, definitions, ks) ==
  IF ks = {} THEN <<>>
  ELSE trim(attributes[EntryOf(attributes,
                               definitions[CHOOSE k \in ks : \A m \in ks : k <= m].attributeId)].value)

SubmittedSubtype(attributes, definitions) ==
  SubtypeAt(attributes, definitions, SubmittedSubtypes(attributes, definitions))

LacksValue(attributes, attributeId) ==
  \/ EntriesOf(attributes, attributeId) = {}
  \/ trim(attributes[EntryOf(attributes, attributeId)].value) = <<>>

\* the codes of the definitions that are required under the subtype value and
\* have no value
MissingUnder(attributes, definitions, subtypeValue) ==
  {definitions[k].code : k \in
     {m \in DOMAIN definitions :
        /\ evaluateRequirement(definitions[m].requiredRule, subtypeValue).required
        /\ LacksValue(attributes, definitions[m].attributeId)}}

MissingCodes(attributes, definitions) ==
  MissingUnder(attributes, definitions, SubmittedSubtype(attributes, definitions))

Contains(text, part) ==
  \E i \in 1..(Len(text) - Len(part) + 1) : SubSeq(text, i, i + Len(part) - 1) = part

FailsNaming(outcome, codes) ==
  /\ outcome.ok <=> codes = {}
  /\ \A code \in codes : Contains(outcome.error, code)

ValidatedInt ==
  /\ ruleResult.done
  /\ ruleCall.fn = "validateAttributeValue"
  /\ ruleCall.definition \in IntDefinitions

\* the text is an integer in decimal notation: an optional sign, then digits only
IsIntegerText(text) ==
  /\ text # <<>>
  /\ DigitRun(text, IF text[1] \in {"+", "-"} THEN 2 ELSE 1)
       = Len(text) - (IF text[1] \in {"+", "-"} THEN 1 ELSE 0)
  /\ Len(text) > (IF text[1] \in {"+", "-"} THEN 1 ELSE 0)

IntegerOf(text) ==
  IF text[1] = "-" THEN -DigitsValue(Tail(text))
  ELSE IF text[1] = "+" THEN DigitsValue(Tail(text))
  ELSE DigitsValue(text)

\* n (a whole number) is outside the declared bounds (held in tenths)
OutOfBounds(n, definition) ==
  \/ definition.minValue.some /\ n * 10 < definition.minValue.v
  \/ definition.maxValue.some /\ n * 10 > definition.maxValue.v

IntOutcome(text, definition, outcome) ==
  IF text = <<>> THEN outcome.ok /\ outcome.value = <<>>
  ELSE IF ~IsIntegerText(text) THEN ~outcome.ok
  ELSE IF OutOfBounds(IntegerOf(text), definition) THEN ~outcome.ok
  ELSE outcome.ok /\ outcome.value = IntToString(IntegerOf(text))

\* C14: for an attribute of datatype int, validateAttributeValue fails for every
\* non-empty trimmed value that is not an integer (a fractional part, trailing
\* non-digits) and for every integer below the declared min or above the
\* declared max; otherwise it returns the integer's decimal string; an empty
\* value passes and normalizes to ''.
C14_IntValidation ==
  ValidatedInt =>
    IntOutcome(IF ruleCall.rawValue.some THEN trim(ruleCall.rawValue.v) ELSE <<>>,
               ruleCall.definition, ruleResult)

(***************************************************************************)
(* Claim C15: upsertPart keeps the attribute rows within the part type       *)
(***************************************************************************)
\* the attribute is mapped to the part type
MappedTo(attributeId, partTypeId) ==
  \E m \in DOMAIN attribute_part_type_map :
    /\ attribute_part_type_map[m].attribute_ID = attributeId
    /\ attribute_part_type_map[m].part_type_ID = partTypeId

\* the attribute row belongs to a part whose type has the attribute
RowWithinType(row) ==
  \E n \in PartNumbers :
    /\ PKeyOf(n) = row.PartMaster_PKey
    /\ partmaster[n].exists
    /\ partmaster[n].part_type_ID.some
    /\ MappedTo(row.attribute_ID, partmaster[n].part_type_ID.v)

\* the submitted ids that are not attributes of the part type
Undefined(p, partTypeId) ==
  IF p.attributes.some
    THEN {p.attributes.v[i].attributeId : i \in
            {j \in DOMAIN p.attributes.v : ~MappedTo(p.attributes.v[j].attributeId, partTypeId)}}
    ELSE {}

\* C15: upsertPart persists only attributes whose id is a defined attribute of
\* the effective part type: after any sequence of upserts every attribute row
\* of a part refers to an attribute mapped to the part type written on the
\* part, and an entry with another id does not make the call fail: the rows
\* listed after a successful call are those of the submitted entries with a
\* defined id.
C15_OnlyDefinedAttributes ==
  /\ \A i \in DOMAIN part_data : RowWithinType(part_data[i])
  /\ pc[1] = "done" =>
       Len(result[1].detail.attributes)
         = Cardinality({j \in DOMAIN payload[1].attributes.v :
                          MappedTo(payload[1].attributes.v[j].attributeId,
                                   effectivePartTypeId[1])})

\* a call that submitted an attribute of another part type and an id that no
\* type has succeeded, and the part holds neither
C15_Witness ==
  /\ pc[1] = "done"
  /\ result[1].ok
  /\ effectivePartTypeId[1] = 1
  /\ Undefined(payload[1], 1) = {9}
  /\ \A i \in DOMAIN part_data :
       part_data[i].PartMaster_PKey = PKeyOf(P1) => part_data[i].attribute_ID \in {1, 2}
  /\ \E i \in DOMAIN part_data :
       part_data[i].PartMaster_PKey = PKeyOf(P1) /\ part_data[i].attribute_ID = 2


(***************************************************************************)
(* Claim C16                                                                *)
(***************************************************************************)
BomReturned == response # NoResponse /\ response.status = 200
                 /\ response.by \in {"getBillOfMaterials", "getBillOfMaterials, sql"}

\* a sequence that is a number: a run of decimal digits
NumericSequence(row) ==
  row.itemSequence.some /\ row.itemSequence.v # <<>>
    /\ \A i \in DOMAIN row.itemSequence.v : IsDigit(row.itemSequence.v[i])

SequenceNumber(row) == DigitsValue(row.itemSequence.v)

SameAssembly(x, y) ==
  ~CollatesBefore(x.assembly, y.assembly) /\ ~CollatesBefore(y.assembly, x.assembly)

\* x has to come before y: an earlier assembly; within one assembly a smaller
\* number, or a number against a sequence that is none; with the sequences
\* alike, an earlier component
HasToPrecede(x, y) ==
  \/ CollatesBefore(x.assembly, y.assembly)
  \/ /\ SameAssembly(x, y)
     /\ \/ NumericSequence(x) /\ ~NumericSequence(y)
        \/ NumericSequence(x) /\ NumericSequence(y) /\ SequenceNumber(x) < SequenceNumber(y)
        \/ /\ NumericSequence(x) = NumericSequence(y)
           /\ NumericSequence(x) => SequenceNumber(x) = SequenceNumber(y)
           /\ CollatesBefore(x.component, y.component)

\* C16: the lines getBillOfMaterials returns are in order of assembly, then
\* of item sequence as a number with the lines whose sequence is no number
\* after the numbered ones of their assembly, then of component; a numbered
\* line is never behind an unnumbered one of its assembly, whatever the
\* component numbers
C16_BomOrdering ==
  BomReturned =>
    \A i, j \in DOMAIN bomRows : i < j => ~HasToPrecede(bomRows[j], bomRows[i])


(***************************************************************************)
(* Claim C17                                                                *)
(***************************************************************************)
Computed == ruleResult.done /\ ruleCall.fn = "computeAssembliesAvailable"

Lines == IF ruleCall.items.some THEN ruleCall.items.v ELSE <<>>

\* a quantity-per that is null, not finite, zero or negative
BadQuantityPer(item) == item.quantityPer.kind # "number" \/ item.quantityPer.v <= 0

\* the line's stock, none counted when it is missing or negative
StockOf(item) ==
  IF item.availableQuantity.kind = "number" /\ item.availableQuantity.v > 0
    THEN item.availableQuantity.v
    ELSE 0

\* the whole assemblies the line's stock allows
AssembliesOf(item) == StockOf(item) \div item.quantityPer.v

\* C17: computeAssembliesAvailable returns the floor of the least
\* availableQuantity / quantityPer over the lines; 0 when there are no lines;
\* 0 when any line has a quantityPer that is null, not finite, zero or
\* negative, wherever that line stands and whatever the others have in stock;
\* and never a negative number
C17_AssembliesAvailable ==
  Computed =>
    /\ ruleResult.value >= 0
    /\ Lines = <<>> => ruleResult.value = 0
    /\ (\E i \in DOMAIN Lines : BadQuantityPer(Lines[i])) => ruleResult.value = 0
    /\ (Lines # <<>> /\ \A i \in DOMAIN Lines : ~BadQuantityPer(Lines[i]))
         => /\ \E i \in DOMAIN Lines : ruleResult.value = AssembliesOf(Lines[i])
            /\ \A i \in DOMAIN Lines : ruleResult.value <= AssembliesOf(Lines[i])

\* a line without a usable quantity-per ahead of two lines that have stock
\* for at least one assembly each
C17_Witness ==
  /\ Computed
  /\ Len(Lines) = 3
  /\ BadQuantityPer(Lines[1])
  /\ \A i \in {2, 3} : ~BadQuantityPer(Lines[i]) /\ AssembliesOf(Lines[i]) >= 2
  /\ ruleResult.value = 0


(***************************************************************************)
(* Claims C18 to C20: the characters of a search term                       *)
(***************************************************************************)
PartTerm == toLowerCase(trim(invoked.options.partNumber))

DescriptionTerm == toLowerCase(trim(invoked.options.description))

\* the only active filter is the part number, the description
OnlyPartNumber ==
  PartTerm # <<>> /\ DescriptionTerm = <<>> /\ ~invoked.options.inStockOnly

OnlyDescription ==
  DescriptionTerm # <<>> /\ PartTerm = <<>> /\ ~invoked.options.inStockOnly

\* the limit has cut no row
NotCut == invoked.options.limit.some => Len(response.data) < invoked.options.limit.v

StoredParts == {n \in DOMAIN partmaster : partmaster[n].exists}

StoredDescription(n) == toLowerCase(COALESCE(partmaster[n].DescText, <<>>))

\* text is the term with each * standing for some run of characters
RECURSIVE Glob(_, _)
Glob(text, term) ==
  IF term = <<>> THEN text = <<>>
  ELSE IF Head(term) = "*"
    THEN Glob(text, Tail(term)) \/ (text # <<>> /\ Glob(Tail(text), term))
  ELSE text # <<>> /\ Head(text) = Head(term) /\ Glob(Tail(text), Tail(term))

\* text holds the term somewhere
Holds(text, term) == Glob(text, <<"*">> \o term \o <<"*">>)

HasStar(term) == \E i \in DOMAIN term : term[i] = "*"

\* C18: * in a part-number or description term is the wildcard: a part whose
\* number (description) holds the term with each * standing for any run of
\* characters is found, and a term that is * alone finds every part
C18_StarWildcard ==
  (FilterSearchAnswered /\ NotCut) =>
    /\ (OnlyPartNumber /\ HasStar(PartTerm)) =>
         \A n \in StoredParts : Holds(toLowerCase(n), PartTerm) => n \in Returned
    /\ (OnlyDescription /\ HasStar(DescriptionTerm)) =>
         \A n \in StoredParts : Holds(StoredDescription(n), DescriptionTerm) => n \in Returned

LikeCharacters == {"%", "_"}

\* text has the term's characters in a row, each one as it is written, with
\* the hyphens and spaces of text passed over or not
HoldsLiterally(text, term) ==
  /\ \A i \in DOMAIN term : term[i] # "*"
  /\ \/ Holds(text, term)
     \/ Holds(REPLACE(REPLACE(text, "-"), " "), REPLACE(REPLACE(term, "-"), " "))

\* C19: % and _ in a term stand for themselves: a part found by a part-number
\* (description) term with % or _ in it has that very character in its number
\* (description), where the term has it
C19_LikeCharactersLiteral ==
  FilterSearchAnswered =>
    /\ (OnlyPartNumber /\ \E i \in DOMAIN PartTerm : PartTerm[i] \in LikeCharacters) =>
         \A n \in Returned : HoldsLiterally(toLowerCase(n), PartTerm)
    /\ (OnlyDescription /\ \E i \in DOMAIN DescriptionTerm : DescriptionTerm[i] \in LikeCharacters) =>
         \A n \in Returned : HoldsLiterally(StoredDescription(n), DescriptionTerm)

WithoutHyphensAndSpaces(text) == REPLACE(REPLACE(text, "-"), " ")

PlainTerm(term) == \A i \in DOMAIN term : term[i] \notin LikeCharacters \cup {"*"}

\* C20: a part-number term finds the stored part numbers that differ from it
\* only by hyphens and spaces ('AB-100' finds 'AB100')
C20_HyphensAndSpaces ==
  (FilterSearchAnswered /\ NotCut /\ OnlyPartNumber /\ PlainTerm(PartTerm)) =>
    \A n \in StoredParts :
      WithoutHyphensAndSpaces(toLowerCase(n)) = WithoutHyphensAndSpaces(PartTerm)
        => n \in Returned


(***************************************************************************)
(* Claim C21                                                                *)
(***************************************************************************)
PastValidation(c) ==
  pc[c] \in {"writePart", "deleteMany", "createMany", "commit", "reload", "done"}

\* the part type the call is to work with; 0 is no part type
ExpectedPartType(c) ==
  IF payload[c].partTypeId.some THEN payload[c].partTypeId.v
  ELSE IF existingPart[c].found /\ existingPart[c].part_type_ID.some
    THEN existingPart[c].part_type_ID.v
  ELSE 0

\* the call failed on a check that follows findUnique
FailedAfterFind(c) ==
  pc[c] = "failed" /\ result[c].error \notin {PrismaError, MsgPartNumberRequired}

\* C21: upsertPart works with the payload's part type when that is a finite
\* number, whatever the stored type is, and with the stored type otherwise;
\* without a part type it fails, with 'A Part Type is required to create a
\* part.' exactly when the part does not exist and with 'A Part Type must be
\* selected before editing this part.' exactly when it exists
C21_EffectivePartType ==
  /\ PastValidation(1) =>
       (ExpectedPartType(1) # 0 /\ effectivePartTypeId[1] = ExpectedPartType(1))
  /\ FailedAfterFind(1) =>
       /\ ExpectedPartType(1) = 0 =>
            result[1].error = IF existingPart[1].found THEN MsgTypeRequiredToEdit
                              ELSE MsgTypeRequiredToCreate
       /\ result[1].error = MsgTypeRequiredToCreate =>
            (ExpectedPartType(1) = 0 /\ ~existingPart[1].found)
       /\ result[1].error = MsgTypeRequiredToEdit =>
            (ExpectedPartType(1) = 0 /\ existingPart[1].found)

\* a part stored with type 1 was saved with type 2 named in the payload
C21_Witness ==
  /\ pc[1] = "done"
  /\ existingPart[1].found
  /\ existingPart[1].part_type_ID = SomeNum(1)
  /\ payload[1].partTypeId = SomeNum(2)
  /\ effectivePartTypeId[1] = 2
  /\ partmaster[PartNumberOf(1)].part_type_ID = SomeNum(2)


(***************************************************************************)
(* Claim C22                                                                *)
(***************************************************************************)
\* the transaction of call c on part n commits in this step
Commits(c, n) == pc[c] = "commit" /\ pc'[c] = "reload" /\ PartNumberOf(c) = n

Upserted(c) == pc[c] \in {"reload", "done"}

PersistedRows(n) == RowsOf(part_data, partmaster[n].PartMaster_PKey)

PersistedDefinitions(n) == resolveAttributeDefinitions(partmaster[n].part_type_ID)

IsSubtypeRow(row) ==
  \E k \in DOMAIN attribute :
    /\ attribute[k].attribute_ID = row.attribute_ID
    /\ normalizeAttributeCode(attribute[k].attribute_code) = <<"s","u","b","t","y","p","e">>

\* the subtype the store holds for the part: the value of its first subtype row
PersistedSubtype(n) ==
  IF \E i \in DOMAIN PersistedRows(n) : IsSubtypeRow(PersistedRows(n)[i])
    THEN LET i == CHOOSE i \in DOMAIN PersistedRows(n) :
                    /\ IsSubtypeRow(PersistedRows(n)[i])
                    /\ \A j \in 1..(i - 1) : ~IsSubtypeRow(PersistedRows(n)[j])
         IN  normalizeString(PersistedRows(n)[i].part_data)
    ELSE <<>>

HasPersistedValue(n, attributeId) ==
  \E i \in DOMAIN PersistedRows(n) :
    /\ PersistedRows(n)[i].attribute_ID = attributeId
    /\ PersistedRows(n)[i].part_data.some
    /\ trim(PersistedRows(n)[i].part_data.v) # <<>>

\* C23: a part that upsertPart has written satisfies the required rules of
\* its part type: every attribute of the persisted part type whose rule is
\* required under the persisted subtype has a non-empty persisted value
C23_RequiredPersisted ==
  \A c \in Calls :
    Upserted(c) =>
      \A k \in DOMAIN PersistedDefinitions(PartNumberOf(c)) :
        evaluateRequirement(PersistedDefinitions(PartNumberOf(c))[k].requiredRule,
                            PersistedSubtype(PartNumberOf(c))).required
          => HasPersistedValue(PartNumberOf(c),
                               PersistedDefinitions(PartNumberOf(c))[k].attributeId)

\* a part of type 1 written with subtype SMD, under which Pins is required,
\* and with its Pins
C23_Witness ==
  /\ pc[1] = "done"
  /\ partmaster[P1].part_type_ID = SomeNum(1)
  /\ PersistedSubtype(P1) = <<"S","M","D">>
  /\ HasPersistedValue(P1, 2)


(***************************************************************************)
(* Claim C24                                                                *)
(***************************************************************************)
RequestedAssembly == trim(resolveQueryParam(request.assembly))

\* the cap as the claim has it
ClaimedCap ==
  IF request.bomLimit.some /\ request.bomLimit.v > 0 THEN request.bomLimit.v
  ELSE IF RequestedAssembly # <<>> THEN BomAssemblyLimit
  ELSE BomDefaultLimit

\* the lines of the request: of the requested assembly, or all
RequestedLines ==
  { [assembly |-> trim(bom[i].Assembly), component |-> trim(bom[i].Component),
     itemSequence |-> bom[i].ItemSequence] :
      i \in { j \in DOMAIN bom : RequestedAssembly = <<>> \/ bom[j].Assembly = RequestedAssembly } }

ReturnedLines ==
  { [assembly |-> bomRows[i].assembly, component |-> bomRows[i].component,
     itemSequence |-> bomRows[i].itemSequence] : i \in DOMAIN bomRows }

\* C24: getBillOfMaterials returns the first cap lines of the BOM ordering
\* (assembly, sequence as a number, component), the cap being the requested
\* limit when that is positive, else 200 with an assembly and 100 without;
\* an assembly with no more lines than the cap is returned whole
C24_BomCap ==
  BomReturned =>
    /\ ReturnedLines \subseteq RequestedLines
    /\ Len(bomRows) = Cardinality(ReturnedLines)
    /\ Len(bomRows) = IF Cardinality(RequestedLines) < ClaimedCap
                        THEN Cardinality(RequestedLines) ELSE ClaimedCap
    /\ \A r \in ReturnedLines : \A m \in RequestedLines \ ReturnedLines : ~HasToPrecede(m, r)


(***************************************************************************)
(* Claims C25 and C26: the Prisma sync endpoint                             *)
(***************************************************************************)
\* the request was accepted and has not been answered
Synchronizing(r) == sync[r].pc \in {"copy", "mkdir", "child", "read"}

RunningCommands(r) ==
  {i \in DOMAIN sync[r].commands : sync[r].commands[i].state = "running"}

\* C25: in one server process at most one synchronization executes at a
\* time, whatever the order of the POST requests and of the ends of the
\* commands: a request that arrives while prismaSyncInProgress is true is
\* answered 409 and spawns no Prisma command
C25_OneSyncAtATime ==
  /\ Cardinality({r \in SyncRequests : Synchronizing(r)}) <= 1
  /\ Cardinality({r \in SyncRequests : RunningCommands(r) # {}}) <= 1
  /\ \A r \in SyncRequests :
       (sync[r].pc # "none" /\ sync[r].sawInProgress) =>
         (sync[r].pc = "answered" /\ sync[r].status = 409 /\ sync[r].commands = <<>>)

\* a request was answered 409 while the child of another was running
C25_Witness ==
  \E r, q \in SyncRequests :
    /\ sync[r].status = 409
    /\ sync[r].commands = <<>>
    /\ sync[q].pc = "child"
    /\ sync[q].step = 2
    /\ sync[q].order < sync[r].order


\* client generation is the command after an introspection that exited with 0
GenerationAfterIntrospection(r) ==
  \A i \in DOMAIN sync[r].commands :
    sync[r].commands[i].step = "client generation" =>
      (i > 1 /\ sync[r].commands[i - 1] = Command("schema introspection", "exited", 0))

\* C26: every accepted sync request releases the lock in the end: once its
\* file operations and commands have ended, well or not at any step, it is
\* answered and prismaSyncInProgress is false; the flag is set only while an
\* accepted request is not yet answered, so a POST that comes later is not
\* answered 409; and client generation is started only after schema
\* introspection exited with code 0
C26_LockReleased ==
  /\ [](prismaSyncInProgress = (\E r \in SyncRequests : Synchronizing(r)))
  /\ [](\A r \in SyncRequests : sync[r].status = 409 => sync[r].sawInProgress)
  /\ [](\A r \in SyncRequests : GenerationAfterIntrospection(r))
  /\ \A r \in SyncRequests :
       Synchronizing(r) ~> (sync[r].pc = "answered" /\ ~prismaSyncInProgress)

\* a request failed at the introspection and a request that came after it
\* was accepted and ran both commands
C26_Witness ==
  \E r, q \in SyncRequests :
    /\ sync[r].status = 500
    /\ sync[r].commands = <<Command("schema introspection", "exited", 1)>>
    /\ sync[q].order > sync[r].order
    /\ sync[q].status = 200
    /\ Len(sync[q].commands) = 2
    /\ ~prismaSyncInProgress

(***************************************************************************)
(* Claim C27                                                               *)
(***************************************************************************)
\* the rows are those of the search triggered last
OfLatestSearch(rows) == \A i \in 1..Len(rows) : rows[i].search = triggered

\* C27: in the inventory search UI, whatever the filter changes and the order of
\* the responses, the rows of the results table and lastParts are those returned
\* for the most recently triggered search (a refused search included): the
\* response of an earlier search is never rendered and never becomes lastParts
C27_LatestSearchShown == OfLatestSearch(resultsBody.rows) /\ OfLatestSearch(lastParts)

(***************************************************************************)
(* Claim C28                                                               *)
(***************************************************************************)
\* the calculator answered for a loaded BOM
ShortagesRendered ==
  /\ ruleCall.fn = "renderShortages"
  /\ ruleResult.done
  /\ ruleCall.items.some
  /\ Len(ruleCall.items.v) > 0

\* C28: for every loaded BOM and every requested assembly count N >= 1, the
\* shortage list of renderShortages is empty if and only if N is at most
\* computeAssembliesAvailable of the same lines: the calculator never reports
\* 'All components are sufficiently stocked' for a quantity larger than the
\* displayed assemblies-available count
C28_ShortagesAgreeWithAvailable ==
  ShortagesRendered =>
    ( ruleResult.value.shortages = <<>>
        <=> ruleCall.assembliesNeeded <= computeAssembliesAvailable(ruleCall.items) )

(***************************************************************************)
(* Claim C29                                                               *)
(***************************************************************************)
\* the status the save handler answers a failed call with
SaveStatus(c) == mapSaveErrorToStatus(result[c].error)

\* the call failed, and not because the store failed
RefusedInput(c) == pc[c] = "failed" /\ result[c].error # PrismaError

\* C29: the save handlers answer every upsertPart failure caused by invalid
\* input (missing part number, missing part type, missing required attributes,
\* an attribute value failing its enum, int, double or range constraint) with a
\* 4xx status, answer 404 exactly for a nonexistent part when creation is not
\* permitted, and answer 500 only for store failures
C29_SaveStatus ==
  \A c \in Calls :
    /\ RefusedInput(c) => SaveStatus(c) \in 400..499
    /\ (RefusedInput(c) /\ PartNumberOf(c) # <<>>) =>
         (SaveStatus(c) = 404 <=> (~existingPart[c].found /\ ~allowCreate[c]))
    /\ (pc[c] = "failed" /\ SaveStatus(c) = 500) => result[c].error = PrismaError

(***************************************************************************)
(* Claim C30                                                               *)
(***************************************************************************)
\* the editor resolved a rule for a subtype string
ResolvedForString ==
  /\ ruleCall.fn = "resolveRequirementState"
  /\ ruleResult.done
  /\ ruleCall.subtype.some

====
